---- MODULE Spec2Model ----
(***************************************************************************)
(* The Confetti effect manager of src/src/models/base.ts (the              *)
(* options-object class, lines 58-467, and the burst effects of the class  *)
(* with a colors argument, lines 482-974) on a browser event loop: one-shot *)
(* timers (setTimeout), repeating timers (setInterval) and animation-frame *)
(* callbacks (requestAnimationFrame), each callback run to completion.     *)
(* Times are milliseconds.  JavaScript numbers that can be fractional are  *)
(* exact rationals [num, den] in lowest terms.                             *)
(***************************************************************************)
EXTENDS Integers, Sequences, FiniteSets, TLC

(***************************************************************************)
(* Bounds of the exploration.                                              *)
(***************************************************************************)
\* calls a page that uses every method makes on the instance in one run
MaxCalls == 2
\* calls a page that uses the loops and reset makes in one run
MaxLoopCalls == 3
\* calls a page that uses customCanvas and the effects makes in one run
MaxSurfaceCalls == 3
\* calls a page that uses infinite alone makes in one run
MaxInfiniteCalls == 2
\* calls a page that uses reset alone makes in one run
MaxFadeCalls == 2
\* calls a page that fires the effects on an instance with its own defaults
\* makes in one run
MaxEffectCalls == 2
\* calls a page that uses snow, pride and reset makes in one run
MaxFrameCalls == 4
\* calls a page that uses fall with shapes of its own makes in one run
MaxShapeCalls == 2
\* calls a page that uses the class with the colors argument makes in one run
MaxColorsCalls == 2
\* calls a page that uses pride and reset makes in one run
MaxPrideCalls == 3
\* calls a page that uses snow and reset alone makes in one run
MaxDelayCalls == 3
\* calls a page that uses infinite with several effect methods makes in one run
MaxTwiceCalls == 2
\* calls a page that uses fireworks alone makes in one run
MaxFireworkCalls == 2
\* the clock is not advanced past this instant
MaxTime == 500
\* the same, on the page that uses fireworks alone
MaxFireworkTime == 800
\* the same, on the page that uses infinite alone
MaxInfiniteTime == 6200
\* the same, on the page that uses reset alone
MaxFadeTime == 2100
\* the page makes no call after this instant
LastCall == 150
\* milliseconds between two animation frames of the display
FrameMs == 100

(***************************************************************************)
(* Numbers.                                                                *)
(***************************************************************************)
RECURSIVE GCD(_, _)
GCD(a, b) == IF b = 0 THEN a ELSE GCD(b, a % b)

Abs(a) == IF a < 0 THEN -a ELSE a

\* the rational n/d (d > 0) in lowest terms
Rat(n, d) ==
  LET g == GCD(Abs(n), d)
  IN  [num |-> n \div g, den |-> d \div g]

RatInt(n) == [num |-> n, den |-> 1]

RatAdd(a, b) == Rat(a.num * b.den + b.num * a.den, a.den * b.den)

RatSub(a, b) == Rat(a.num * b.den - b.num * a.den, a.den * b.den)

RatMul(a, b) == Rat(a.num * b.num, a.den * b.den)

RatLess(a, b) == a.num * b.den < b.num * a.den

RatLeq(a, b) == a.num * b.den <= b.num * a.den

RatMax(a, b) == IF RatLess(a, b) THEN b ELSE a

\* Math.floor
Floor(a) == RatInt(a.num \div a.den)

IsInteger(a) == a.den = 1

(***************************************************************************)
(* Option objects are functions from the names of the fields that are set. *)
(***************************************************************************)
NoOptions == [k \in {} |-> 0]

Has(o, k) == k \in DOMAIN o

\* { ...lower, ...upper }
Spread(lower, upper) == upper @@ lower

\* options?.k || dflt, for a field holding a number of milliseconds
OrMs(o, k, dflt) == IF Has(o, k) /\ o[k] # 0 THEN o[k] ELSE dflt

\* options?.k || dflt, for a numeric field
OrNum(o, k, dflt) == IF Has(o, k) /\ o[k].num # 0 THEN o[k] ELSE dflt

\* the value of timerId and animationFrameId that stands for null
NoHandle == 0

\* the value of confettiInstance and of a canvas that stands for null
NoInstance == "null"

\* the renderer confetti(...) of the whole viewport
DefaultRenderer == "default"

\* confetti.create(canvas, opts): the renderer bound to the canvas
create(canvas, opts) == canvas

stepTime == 50

fireworksPeriod == 250

fireworksDuration == 15000

snowDuration == 5000

prideDuration == 15000

resetDuration == 2000

fallBursts == 10

VARIABLES
  now,               \* Date.now()
  timers,            \* the pending timers and animation-frame callbacks
  nextSeq,           \* the next timer handle / registration number
  defaults,          \* this.defaults
  confettiInstance,  \* this.confettiInstance
  timerId,           \* this.timerId
  animationFrameId,  \* this.animationFrameId
  calls,             \* calls made by the page so far
  page,              \* the page of this run: the methods it uses
  canvasArg,         \* the argument of the last customCanvas call
  burstCount,        \* configurations handed to the rendering primitive so far
  lastBurst,         \* the last of them: renderer, configuration, instant
  clearCount,        \* confetti.reset() calls so far
  lastClear,         \* the instant of the last of them
  loops,             \* history of every interval loop: handle -> record
  lastInvoke,        \* the last effect method invoked by an infinite loop
  log,               \* history of every call of the page: number -> record
  event              \* what the last step was: a call of the page, a callback

vars ==
  << now, timers, nextSeq, defaults, confettiInstance, timerId,
     animationFrameId, calls, page, canvasArg, burstCount, lastBurst, clearCount,
     lastClear,
     loops, lastInvoke, log, event >>

(***************************************************************************)
(* The instance and its environment as one value m, so that a method can   *)
(* be run by the page and by a callback alike.                             *)
(***************************************************************************)
Here ==
  [ timers |-> timers, nextSeq |-> nextSeq, defaults |-> defaults,
    confettiInstance |-> confettiInstance, timerId |-> timerId,
    animationFrameId |-> animationFrameId,
    burstCount |-> burstCount, lastBurst |-> lastBurst,
    clearCount |-> clearCount, lastClear |-> lastClear,
    loops |-> loops, lastInvoke |-> lastInvoke, log |-> log,
    cur |-> 0 ]  \* the call of the page on whose behalf the code runs

Becomes(m) ==
  /\ timers' = m.timers
  /\ nextSeq' = m.nextSeq
  /\ defaults' = m.defaults
  /\ confettiInstance' = m.confettiInstance
  /\ timerId' = m.timerId
  /\ animationFrameId' = m.animationFrameId
  /\ burstCount' = m.burstCount
  /\ lastBurst' = m.lastBurst
  /\ clearCount' = m.clearCount
  /\ lastClear' = m.lastClear
  /\ loops' = m.loops
  /\ lastInvoke' = m.lastInvoke
  /\ log' = m.log

(***************************************************************************)
(* The browser's timers.  A timer is [id, seq, kind, wait, due, cb, env,    *)
(* origin]: its handle, its registration number (an interval is registered *)
(* again after each run), "timeout" | "interval" | "frame", its delay or   *)
(* period, the instant it runs, the callback, the variables the callback   *)
(* has captured, and (history) the call of the page it stems from.         *)
(***************************************************************************)
Timer(m, kind, wait, due, cb, env) ==
  [ id |-> m.nextSeq, seq |-> m.nextSeq, kind |-> kind, wait |-> wait,
    due |-> due, cb |-> cb, env |-> env, origin |-> m.cur ]

setTimeout(m, cb, env, delay) ==
  [ m EXCEPT !.timers = @ \cup {Timer(m, "timeout", delay, now + delay, cb, env)},
             !.nextSeq = @ + 1 ]

\* the handle returned is m.nextSeq
setInterval(m, cb, env, period) ==
  [ m EXCEPT !.timers = @ \cup {Timer(m, "interval", period, now + period, cb, env)},
             !.nextSeq = @ + 1 ]

\* the instant of the next animation frame after t
NextFrame(t) == ((t \div FrameMs) + 1) * FrameMs

\* the handle returned is m.nextSeq
requestAnimationFrame(m, cb, env) ==
  [ m EXCEPT !.timers = @ \cup {Timer(m, "frame", 0, NextFrame(now), cb, env)},
             !.nextSeq = @ + 1 ]

\* clearInterval and clearTimeout share one pool of handles
clearInterval(m, id) ==
  [ m EXCEPT !.timers = {t \in @ : ~(t.id = id /\ t.kind # "frame")} ]

cancelAnimationFrame(m, id) ==
  [ m EXCEPT !.timers = {t \in @ : ~(t.id = id /\ t.kind = "frame")} ]

\* the interval with handle id has not been cleared
Pending(m, id) == \E t \in m.timers : t.id = id /\ t.kind = "interval"

\* history: what the loop behind interval handle id has done so far
NoteLoop(m, id, rec) ==
  [ m EXCEPT !.loops = (id :> ([call |-> m.cur] @@ rec)) @@ @ ]

Bump(m, id, field) ==
  IF id \in DOMAIN m.loops
  THEN [ m EXCEPT !.loops[id][field] = @ + 1 ]
  ELSE m

(***************************************************************************)
(* Math.random(): a callback that draws n numbers gets them as rs[1..n],   *)
(* each in [0,1).                                                          *)
(***************************************************************************)
\* the least draw and a draw close to 1; where the draws only place the
\* particles (the page that binds canvases) one of them stands for both
RandomValues ==
  CASE page = "surface" -> {Rat(999, 1000)}
    [] page = "effects" -> {Rat(0, 1), Rat(2, 7), Rat(999, 1000)}
    [] OTHER -> {Rat(0, 1), Rat(999, 1000)}

Draws(n) == { [i \in 1..n |-> r] : r \in RandomValues }

randomInRange(min, max, r) == RatAdd(RatMul(r, RatSub(max, min)), min)

(***************************************************************************)
(* Shapes: a string of the caller, or an object made by the rendering      *)
(* primitive (shapeFromText, shapeFromPath).                               *)
(***************************************************************************)
Str(s) == [type |-> "string", text |-> s]

circle == Str("circle")

square == Str("square")

star == Str("star")

shapeFromText(text, scalar) == [type |-> "bitmap", text |-> text, scalar |-> scalar]

(***************************************************************************)
(* The Confetti class.                                                     *)
(***************************************************************************)
BuiltInDefaults ==
  [ colors |-> << "#a864fd", "#29cdff", "#78ff44", "#ff718d", "#fdff6a", "#9400D3" >>,
    particleCount |-> RatInt(200),
    spread |-> RatInt(60),
    startVelocity |-> RatInt(30),
    decay |-> Rat(9, 10),
    scalar |-> RatInt(1),
    angle |-> RatInt(90),
    origin |-> [x |-> Rat(1, 2), y |-> Rat(1, 2)] ]

constructor(config) == Spread(BuiltInDefaults, config)

\* RendererOf as it would be if launchConfetti ignored this.confettiInstance
RendererOf_unbound(m) == DefaultRenderer

\* the renderer launchConfetti hands the configuration to
RendererOf(m) ==
  IF m.confettiInstance # NoInstance THEN m.confettiInstance ELSE DefaultRenderer

\* the rendering primitive, called on renderer r with configuration cfg
Render(m, r, cfg, via) ==
  [ m EXCEPT !.burstCount = @ + 1,
             !.lastBurst = [ n |-> m.burstCount + 1, renderer |-> r,
                             config |-> cfg, at |-> now, via |-> via,
                             loop |-> NoHandle, origin |-> m.cur, given |-> NoOptions ],
             !.log = IF m.cur \in DOMAIN @
                     THEN [@ EXCEPT ![m.cur].counts = Append(@, cfg.particleCount)]
                     ELSE @ ]

\* launchConfetti as it would be if the defaults were spread over the options
launchConfetti_defaultsLast(m, options) ==
  [ Render(m, RendererOf(m), Spread(options, m.defaults), "launchConfetti")
      EXCEPT !.lastBurst.given = options ]

\* launchConfetti as it would be if it merged the options into this.defaults
launchConfetti_assigning(m, options) ==
  [ Render(m, RendererOf(m), Spread(m.defaults, options), "launchConfetti")
      EXCEPT !.lastBurst.given = options,
             !.defaults = Spread(m.defaults, options) ]

launchConfetti(m, options) ==
  [ Render(m, RendererOf(m), Spread(m.defaults, options), "launchConfetti")
      EXCEPT !.lastBurst.given = options ]

\* launchConfettiWithDelay as it would be if it set its timer without the delay
launchConfettiWithDelay_undelayed(m, options) ==
  setTimeout(m, "launch", [options |-> options], 0)

\* launchConfettiWithDelay as it would be if it launched without a timer
launchConfettiWithDelay_eager(m, options) == launchConfetti(m, options)

launchConfettiWithDelay(m, options) ==
  setTimeout(m, "launch", [options |-> options], OrMs(options, "delay", 0))

custom(m, options) == launchConfettiWithDelay(m, options)

\* cannon as it would be if it did not set the particle count
cannon_plain(m, options) == launchConfettiWithDelay(m, options)

cannon(m, options) ==
  launchConfettiWithDelay(m, Spread([particleCount |-> RatInt(100)], options))

\* randomDirection as it would be if it rounded the particle count
randomDirection_rounded(m, options, rs) ==
  launchConfettiWithDelay(m,
    Spread([ particleCount |-> Floor(RatAdd(RatMul(rs[1], RatInt(300)), Rat(1, 2))),
             spread |-> Floor(RatMul(rs[2], RatInt(360))),
             angle |-> Floor(RatMul(rs[3], RatInt(360))) ],
           options))

randomDirection(m, options, rs) ==
  launchConfettiWithDelay(m,
    Spread([ particleCount |-> Floor(RatMul(rs[1], RatInt(300))),
             spread |-> Floor(RatMul(rs[2], RatInt(360))),
             angle |-> Floor(RatMul(rs[3], RatInt(360))) ],
           options))

\* fire as it would be if it took its count from the defaults of the instance
realisticFire_ownCount(m, options, particleRatio, opts) ==
  launchConfettiWithDelay(m,
    Spread(Spread(Spread([origin |-> [y |-> Rat(7, 10)]],
                         [particleCount |->
                            Floor(RatMul(m.defaults.particleCount, particleRatio))]),
                  opts),
           options))

\* the local function fire of realistic
realisticFire(m, options, particleRatio, opts) ==
  launchConfettiWithDelay(m,
    Spread(Spread(Spread([origin |-> [y |-> Rat(7, 10)]],
                         [particleCount |-> Floor(RatMul(RatInt(200), particleRatio))]),
                  opts),
           options))

realistic(m, options) ==
  LET m1 == realisticFire(m, options, Rat(25, 100),
              [spread |-> RatInt(26), startVelocity |-> RatInt(55)])
      m2 == realisticFire(m1, options, Rat(2, 10), [spread |-> RatInt(60)])
      m3 == realisticFire(m2, options, Rat(35, 100),
              [spread |-> RatInt(100), decay |-> Rat(91, 100), scalar |-> Rat(8, 10)])
      m4 == realisticFire(m3, options, Rat(1, 10),
              [ spread |-> RatInt(120), startVelocity |-> RatInt(25),
                decay |-> Rat(92, 100), scalar |-> Rat(12, 10) ])
  IN  realisticFire(m4, options, Rat(1, 10),
        [spread |-> RatInt(120), startVelocity |-> RatInt(45)])

stars(m, options) ==
  launchConfettiWithDelay(m,
    Spread([ particleCount |-> RatInt(40),
             shapes |-> << star >>,
             colors |-> << "FFE400", "FFBD00", "E89400", "FFCA6C", "FDFFB8" >>,
             scalar |-> Rat(12, 10) ],
           options))

(***************************************************************************)
(* infinite and stopInfinite.                                              *)
(***************************************************************************)
NewLoop(kind, period, duration, delay) ==
  [ kind |-> kind, start |-> now, period |-> period, duration |-> duration,
    delay |-> delay, ticks |-> 0, queued |-> 0, invoked |-> 0, expired |-> 0,
    clears |-> 0, halted |-> 0 ]

infinite(m, method, interval, duration, options) ==
  LET end == now + duration
      delay == OrMs(options, "delay", 0)
      id == m.nextSeq
      m1 == setInterval(m, "infiniteTick",
              [end |-> end, delay |-> delay, method |-> method, options |-> options],
              interval)
      m2 == NoteLoop(m1, id, NewLoop("infinite", interval, duration, delay))
  IN  [ m2 EXCEPT !.timerId = id ]

stopInfinite(m) ==
  IF m.timerId # NoHandle
  THEN [ clearInterval(m, m.timerId) EXCEPT !.timerId = NoHandle ]
  ELSE m

\* the interval callback of infinite; t is the timer that runs
infiniteTick(m, t) ==
  IF now > t.env.end
  THEN stopInfinite(Bump(m, t.id, "expired"))
  ELSE Bump(setTimeout(m, "infiniteCall",
                       [method |-> t.env.method, options |-> t.env.options, loop |-> t.id],
                       t.env.delay),
            t.id, "queued")

(***************************************************************************)
(* fireworks.                                                              *)
(***************************************************************************)
\* fire as it would be if it launched the burst on the left only
fireworksFire_leftOnly(m, options, particleCount, rs) ==
  launchConfettiWithDelay(m,
    Spread(Spread([ startVelocity |-> RatInt(30), spread |-> RatInt(360),
                    ticks |-> RatInt(60), zIndex |-> RatInt(0) ],
                  [ particleCount |-> particleCount,
                    origin |-> [ x |-> randomInRange(Rat(1, 10), Rat(3, 10), rs[1]),
                                 y |-> RatSub(rs[2], Rat(2, 10)) ] ]),
           options))

\* the local function fire of fireworks
fireworksFire(m, options, particleCount, rs) ==
  LET dflt == [ startVelocity |-> RatInt(30), spread |-> RatInt(360),
                ticks |-> RatInt(60), zIndex |-> RatInt(0) ]
      m1 == launchConfettiWithDelay(m,
              Spread(Spread(dflt,
                            [ particleCount |-> particleCount,
                              origin |-> [ x |-> randomInRange(Rat(1, 10), Rat(3, 10), rs[1]),
                                           y |-> RatSub(rs[2], Rat(2, 10)) ] ]),
                     options))
  IN  launchConfettiWithDelay(m1,
        Spread(Spread(dflt,
                      [ particleCount |-> particleCount,
                        origin |-> [ x |-> randomInRange(Rat(7, 10), Rat(9, 10), rs[3]),
                                     y |-> RatSub(rs[4], Rat(2, 10)) ] ]),
               options))

\* the interval callback of fireworks
fireworksTick(m, t, rs) ==
  LET timeLeft == t.env.animationEnd - now
      options == t.env.options
  IN  IF timeLeft <= 0
      THEN clearInterval(Bump(m, t.id, "expired"), t.id)
      ELSE fireworksFire(Bump(m, t.id, "queued"), options,
             Rat(50 * timeLeft, OrMs(options, "duration", fireworksDuration)), rs)

fireworks(m, options) ==
  LET duration == OrMs(options, "duration", fireworksDuration)
      animationEnd == now + duration
      interval == m.nextSeq
      m1 == setInterval(m, "fireworksTick",
              [animationEnd |-> animationEnd, options |-> options], fireworksPeriod)
      m2 == NoteLoop(m1, interval, NewLoop("fireworks", fireworksPeriod, duration, 0))
  IN  [ m2 EXCEPT !.timerId = interval ]

(***************************************************************************)
(* snow.                                                                   *)
(***************************************************************************)
snow(m, options) ==
  setTimeout(m, "snowStart", [options |-> options], OrMs(options, "delay", 0))

\* the timeout callback of snow
\* history: a frame loop begins after reset was called on the running loops of these calls
NoteBegin(m) ==
  [ m EXCEPT !.log =
      [ c \in DOMAIN @ |->
          IF @[c].reset > 0 THEN [@[c] EXCEPT !.joined = 1] ELSE @[c] ] ]

snowStart(m0, t) ==
  LET m == NoteBegin(m0)
      options == t.env.options
      animationEnd == now + OrMs(options, "duration", snowDuration)
      id == m.nextSeq
      m1 == requestAnimationFrame(m, "snowFrame",
              [animationEnd |-> animationEnd, options |-> options, skew |-> RatInt(1)])
  IN  [ m1 EXCEPT !.animationFrameId = id ]

\* history: a frame callback of the call at work does its work; it is late
\* if a reset has been called since the frame loop of that call began
NoteFrame(m) ==
  IF m.cur \in DOMAIN m.log /\ m.log[m.cur].reset > 0
  THEN [ m EXCEPT !.log[m.cur].late = @ + 1 ]
  ELSE m

\* the local function frame of snow
snowFrame(m0, t, rs) ==
  LET options == t.env.options
      timeLeft == t.env.animationEnd - now
      m == NoteFrame(m0)
  IN  IF timeLeft <= 0 \/ m0.animationFrameId = NoHandle
      THEN m0
      ELSE LET ticks == RatMax(RatInt(200),
                               Rat(500 * timeLeft, OrMs(options, "duration", snowDuration)))
               skew == RatMax(Rat(8, 10), RatSub(t.env.skew, Rat(1, 1000)))
               m1 == launchConfetti(m,
                       Spread([ particleCount |-> RatInt(1),
                                startVelocity |-> RatInt(0),
                                ticks |-> ticks,
                                origin |-> [ x |-> rs[1],
                                             y |-> RatSub(RatMul(rs[2], skew), Rat(2, 10)) ],
                                shapes |-> << circle >>,
                                gravity |-> randomInRange(Rat(4, 10), Rat(6, 10), rs[3]),
                                scalar |-> randomInRange(Rat(4, 10), RatInt(1), rs[4]),
                                drift |-> randomInRange(Rat(-4, 10), Rat(4, 10), rs[5]),
                                colors |-> << "#FCFCFC" >> ],
                              options))
               id == m1.nextSeq
               m2 == requestAnimationFrame(m1, "snowFrame", [t.env EXCEPT !.skew = skew])
           IN  [ m2 EXCEPT !.animationFrameId = id ]

(***************************************************************************)
(* fall.                                                                   *)
(***************************************************************************)
validShapes == << circle, square, star >>

InSeq(x, s) == \E i \in 1..Len(s) : s[i] = x

\* processShape as it would be if a string that is no built-in name became
\* circle
processShape_circleForText(shape, options) ==
  IF InSeq(shape, validShapes) THEN shape ELSE circle

\* the function fall maps over the shapes
processShape(shape, options) ==
  IF shape.type = "string" /\ ~InSeq(shape, validShapes)
  THEN shapeFromText(shape.text, OrNum(options, "scalar", RatInt(1)))
  ELSE IF InSeq(shape, validShapes) THEN shape ELSE circle

processedShapes(options) ==
  LET shapes == IF Has(options, "shapes") THEN options.shapes ELSE validShapes
  IN  [i \in 1..Len(shapes) |-> processShape(shapes[i], options)]

\* the function fall maps over the shapes gets to its console.warn
processWarns(shape, options) ==
  ~(shape.type = "string" /\ ~InSeq(shape, validShapes)) /\ ~InSeq(shape, validShapes)

\* history: the list fall has resolved and the warnings it has logged
NoteShapes(m, options) ==
  LET shapes == IF Has(options, "shapes") THEN options.shapes ELSE validShapes
  IN  IF m.cur \in DOMAIN m.log
      THEN [ m EXCEPT !.log[m.cur].resolved = processedShapes(options),
                      !.log[m.cur].warnings =
                        @ + Cardinality({i \in 1..Len(shapes) : processWarns(shapes[i], options)}) ]
      ELSE m

fall(m, options) ==
  setTimeout(NoteShapes(m, options), "fallShoot",
    [options |-> options, processedShapes |-> processedShapes(options)],
    OrMs(options, "delay", 0))

RECURSIVE fallLoop(_, _, _, _)
fallLoop(m, t, rs, i) ==
  IF i >= fallBursts
  THEN m
  ELSE LET options == t.env.options
       IN  fallLoop(
             launchConfettiWithDelay(m,
               Spread([ particleCount |-> OrNum(options, "particleCount", RatInt(50)),
                        startVelocity |-> OrNum(options, "startVelocity", RatInt(20)),
                        gravity |-> OrNum(options, "gravity", Rat(8, 10)),
                        ticks |-> OrNum(options, "ticks", RatInt(1200)),
                        decay |-> OrNum(options, "decay", Rat(93, 100)),
                        shapes |-> t.env.processedShapes,
                        origin |-> [x |-> rs[2 * i + 1], y |-> RatInt(0)],
                        scalar |-> OrNum(options, "scalar", Rat(11, 10)),
                        drift |-> RatSub(RatMul(rs[2 * i + 2], RatInt(2)), RatInt(1)) ],
                      options)),
             t, rs, i + 1)

\* the local function shoot of fall
fallShoot(m, t, rs) == fallLoop(m, t, rs, 0)

(***************************************************************************)
(* pride.                                                                  *)
(***************************************************************************)
\* frame as it would be if it did not test this.animationFrameId
prideFrame_unguarded(m0, t) ==
  LET options == t.env.options
      timeLeft == t.env.end - now
      m == NoteFrame(m0)
  IN  IF timeLeft > 0
      THEN LET m1 == launchConfettiWithDelay(m,
                       Spread([ particleCount |-> RatInt(2), angle |-> RatInt(60),
                                spread |-> RatInt(55),
                                origin |-> [x |-> RatInt(0), y |-> Rat(1, 2)] ],
                              options))
               m2 == launchConfettiWithDelay(m1,
                       Spread([ particleCount |-> RatInt(2), angle |-> RatInt(120),
                                spread |-> RatInt(55),
                                origin |-> [x |-> RatInt(1), y |-> Rat(1, 2)] ],
                              options))
               id == m2.nextSeq
               m3 == requestAnimationFrame(m2, "prideFrame", t.env)
           IN  [ m3 EXCEPT !.animationFrameId = id ]
      ELSE m0

\* the local function frame of pride
prideFrame(m0, t) ==
  LET options == t.env.options
      timeLeft == t.env.end - now
      m == NoteFrame(m0)
  IN  IF timeLeft > 0 /\ m0.animationFrameId # NoHandle
      THEN LET m1 == launchConfettiWithDelay(m,
                       Spread([ particleCount |-> RatInt(2), angle |-> RatInt(60),
                                spread |-> RatInt(55),
                                origin |-> [x |-> RatInt(0), y |-> Rat(1, 2)] ],
                              options))
               m2 == launchConfettiWithDelay(m1,
                       Spread([ particleCount |-> RatInt(2), angle |-> RatInt(120),
                                spread |-> RatInt(55),
                                origin |-> [x |-> RatInt(1), y |-> Rat(1, 2)] ],
                              options))
               id == m2.nextSeq
               m3 == requestAnimationFrame(m2, "prideFrame", t.env)
           IN  [ m3 EXCEPT !.animationFrameId = id ]
      ELSE m0

pride(m0, options) ==
  LET m == NoteBegin(m0)
      duration == OrMs(options, "duration", prideDuration)
      end == now + duration
      id == m.nextSeq
      m1 == requestAnimationFrame(m, "prideFrame", [end |-> end, options |-> options])
  IN  [ m1 EXCEPT !.animationFrameId = id ]

(***************************************************************************)
(* reset and customCanvas.                                                 *)
(***************************************************************************)
\* confetti.reset(): the global clear of the rendering primitive
confettiReset(m) ==
  [ m EXCEPT !.clearCount = @ + 1, !.lastClear = now ]

\* if (this.timerId) { clearInterval(this.timerId); this.timerId = null; }
resetInterval(m) ==
  IF m.timerId # NoHandle
  THEN [ clearInterval(m, m.timerId) EXCEPT !.timerId = NoHandle ]
  ELSE m

\* the closure variables of a pending interval callback, as it left them
SetEnv(m, id, env) ==
  [ m EXCEPT !.timers =
      { IF t.id = id /\ t.kind = "interval" THEN [t EXCEPT !.env = env] ELSE t : t \in @ } ]

\* the configuration of a fade burst
fadeConfig(options, currentStep, steps) ==
  [ particleCount |-> OrNum(options, "particleCount", RatInt(100)),
    startVelocity |-> RatInt(0),
    scalar |-> RatSub(RatInt(1), Rat(currentStep * steps.den, steps.num)),
    disableForReducedMotion |-> TRUE,
    ticks |-> OrNum(options, "ticks", RatInt(200)),
    gravity |-> OrNum(options, "gravity", Rat(1, 2)),
    colors |-> IF Has(options, "colors") THEN options.colors
               ELSE << "rgba(255, 255, 255, 0.1)" >>,
    shapes |-> IF Has(options, "shapes") THEN options.shapes ELSE << circle, square >> ]

\* fadeTick as it would be if the last tick cleared the interval of the fade
\* alone
fadeTick_ownOnly(m, t) ==
  LET options == t.env.options
      steps == t.env.steps
      currentStep == t.env.currentStep + 1
      m1 == SetEnv(m, t.id, [t.env EXCEPT !.currentStep = currentStep])
      m2 == Render(Bump(m1, t.id, "ticks"), DefaultRenderer,
                   fadeConfig(options, currentStep, steps), "reset")
      m3 == [ m2 EXCEPT !.lastBurst.loop = t.id ]
  IN  IF RatLeq(steps, RatInt(currentStep))
      THEN Bump(confettiReset(clearInterval(Bump(m3, t.id, "expired"), t.id)),
                t.id, "clears")
      ELSE m3

\* fadeTick as it would be if the fade ended on currentStep > steps
fadeTick_late(m, t) ==
  LET options == t.env.options
      steps == t.env.steps
      currentStep == t.env.currentStep + 1
      m1 == SetEnv(m, t.id, [t.env EXCEPT !.currentStep = currentStep])
      m2 == Render(Bump(m1, t.id, "ticks"), DefaultRenderer,
                   fadeConfig(options, currentStep, steps), "reset")
      m3 == [ m2 EXCEPT !.lastBurst.loop = t.id ]
  IN  IF RatLess(steps, RatInt(currentStep))
      THEN Bump(confettiReset(resetInterval(clearInterval(Bump(m3, t.id, "expired"), t.id))),
                t.id, "clears")
      ELSE m3

\* the interval callback of reset('smooth')
fadeTick(m, t) ==
  LET options == t.env.options
      steps == t.env.steps
      currentStep == t.env.currentStep + 1
      m1 == SetEnv(m, t.id, [t.env EXCEPT !.currentStep = currentStep])
      m2 == Render(Bump(m1, t.id, "ticks"), DefaultRenderer,
                   fadeConfig(options, currentStep, steps), "reset")
      m3 == [ m2 EXCEPT !.lastBurst.loop = t.id ]
  IN  IF RatLeq(steps, RatInt(currentStep))
      THEN Bump(confettiReset(resetInterval(clearInterval(Bump(m3, t.id, "expired"), t.id))),
                t.id, "clears")
      ELSE m3

\* the smooth branch as it would be if it kept its interval in this.timerId
resetSmooth_tracked(m, options) ==
  LET duration == OrMs(options, "duration", resetDuration)
      steps == Rat(duration, stepTime)
      intervalId == m.nextSeq
      m1 == setInterval(m, "fadeTick",
              [steps |-> steps, currentStep |-> 0, options |-> options], stepTime)
  IN  [ NoteLoop(m1, intervalId, NewLoop("fade", stepTime, duration, 0))
          EXCEPT !.timerId = intervalId ]

\* the smooth branch of reset
resetSmooth(m, options) ==
  LET duration == OrMs(options, "duration", resetDuration)
      steps == Rat(duration, stepTime)
      intervalId == m.nextSeq
      m1 == setInterval(m, "fadeTick",
              [steps |-> steps, currentStep |-> 0, options |-> options], stepTime)
  IN  NoteLoop(m1, intervalId, NewLoop("fade", stepTime, duration, 0))

\* history: reset('instant') was called before the end time of these loops
Halt(m) ==
  [ m EXCEPT !.loops =
      [ id \in DOMAIN @ |->
          IF now <= @[id].start + @[id].duration THEN [@[id] EXCEPT !.halted = 1] ELSE @[id] ] ]

\* resetInstant as it would be if it also cleared the timers of delayed bursts
resetInstant_cancelling(m) ==
  Halt(confettiReset(resetInterval([m EXCEPT !.timers = {t \in @ : t.cb # "launch"}])))

\* resetInstant as it would be if the instant branch ran on into the smooth one
resetInstant_fallthrough(m) ==
  resetSmooth(Halt(confettiReset(resetInterval(m))), NoOptions)

\* the instant branch of reset
resetInstant(m) == Halt(confettiReset(resetInterval(m)))

\* the branch of reset for any other type
resetOther(m) == confettiReset(m)

\* history: reset is called while the frame loops of these calls are running
NoteReset(m) ==
  [ m EXCEPT !.log =
      [ c \in DOMAIN @ |->
          IF \E t \in m.timers : t.kind = "frame" /\ t.origin = c
          THEN [@[c] EXCEPT !.reset = 1, !.resetAt = now]
          ELSE @[c] ] ]

reset_cancellingSnow(m0, type, options) ==
  LET m == NoteReset(m0)
      m1 == IF m.animationFrameId # NoHandle
            THEN [ cancelAnimationFrame(m, m.animationFrameId)
                     EXCEPT !.animationFrameId = NoHandle ]
            ELSE m
      m2 == [ m1 EXCEPT !.timers = {t \in @ : t.cb # "snowStart"} ]
  IN  CASE type = "instant" -> resetInstant(m2)
        [] type = "smooth" -> resetSmooth(m2, options)
        [] OTHER -> resetOther(m2)

reset_keepingHandle(m0, type, options) ==
  LET m == NoteReset(m0)
      m1 == IF m.animationFrameId # NoHandle
            THEN cancelAnimationFrame(m, m.animationFrameId)
            ELSE m
  IN  CASE type = "instant" -> resetInstant(m1)
        [] type = "smooth" -> resetSmooth(m1, options)
        [] OTHER -> resetOther(m1)

reset(m0, type, options) ==
  LET m == NoteReset(m0)
      m1 == IF m.animationFrameId # NoHandle
            THEN [ cancelAnimationFrame(m, m.animationFrameId)
                     EXCEPT !.animationFrameId = NoHandle ]
            ELSE m
  IN  CASE type = "instant" -> resetInstant(m1)
        [] type = "smooth" -> resetSmooth(m1, options)
        [] OTHER -> resetOther(m1)

customCanvas(m, canvas) ==
  IF canvas # NoInstance
  THEN [ m EXCEPT !.confettiInstance = create(canvas, [resize |-> TRUE]) ]
  ELSE [ m EXCEPT !.confettiInstance = NoInstance ]

(***************************************************************************)
(* The Confetti class whose effect methods take (colors, options): its     *)
(* constructor and customCanvas are those above.                           *)
(***************************************************************************)
\* the argument colors: left out, or an array
Undefined == [given |-> FALSE]

Colors(list) == [given |-> TRUE, list |-> list]

colorsLaunchConfetti(m, colors, options) ==
  LET checkedColors == IF ~colors.given \/ Len(colors.list) <= 0
                       THEN m.defaults.colors ELSE colors.list
  IN  [ Render(m, RendererOf(m),
               Spread(Spread(m.defaults, [colors |-> checkedColors]), options),
               "launchConfetti")
          EXCEPT !.lastBurst.given = options ]

colorsLaunchConfettiWithDelay(m, colors, options) ==
  setTimeout(m, "colorsLaunch", [colors |-> colors, options |-> options],
             OrMs(options, "delay", 0))

colorsCustom(m, colors, options) == colorsLaunchConfettiWithDelay(m, colors, options)

colorsCannon(m, colors, options) ==
  colorsLaunchConfettiWithDelay(m, colors,
    Spread(options, [particleCount |-> RatInt(100)]))

colorsRandomDirection(m, colors, options, rs) ==
  colorsLaunchConfettiWithDelay(m, colors,
    Spread(options,
           [ particleCount |-> Floor(RatMul(rs[1], RatInt(300))),
             spread |-> Floor(RatMul(rs[2], RatInt(360))),
             angle |-> Floor(RatMul(rs[3], RatInt(360))) ]))

\* the local function fire of realistic
colorsRealisticFire(m, colors, options, particleRatio, opts) ==
  colorsLaunchConfettiWithDelay(m, colors,
    Spread(Spread(Spread([origin |-> [y |-> Rat(7, 10)]],
                         [particleCount |-> Floor(RatMul(RatInt(200), particleRatio))]),
                  opts),
           options))

colorsRealistic(m, colors, options) ==
  LET m1 == colorsRealisticFire(m, colors, options, Rat(25, 100),
              [spread |-> RatInt(26), startVelocity |-> RatInt(55)])
      m2 == colorsRealisticFire(m1, colors, options, Rat(2, 10), [spread |-> RatInt(60)])
      m3 == colorsRealisticFire(m2, colors, options, Rat(35, 100),
              [spread |-> RatInt(100), decay |-> Rat(91, 100), scalar |-> Rat(8, 10)])
      m4 == colorsRealisticFire(m3, colors, options, Rat(1, 10),
              [ spread |-> RatInt(120), startVelocity |-> RatInt(25),
                decay |-> Rat(92, 100), scalar |-> Rat(12, 10) ])
  IN  colorsRealisticFire(m4, colors, options, Rat(1, 10),
        [spread |-> RatInt(120), startVelocity |-> RatInt(45)])

(***************************************************************************)
(* Callbacks.                                                              *)
(***************************************************************************)
\* methodFunction.call(this, options)
methodFunction(m, method, options, rs) ==
  CASE method = "cannon" -> cannon(m, options)
    [] method = "randomDirection" -> randomDirection(m, options, rs)
    [] method = "realistic" -> realistic(m, options)
    [] method = "fireworks" -> fireworks(m, options)
    [] method = "stars" -> stars(m, options)
    [] method = "snow" -> snow(m, options)
    [] method = "fall" -> fall(m, options)
    [] method = "pride" -> pride(m, options)
    [] method = "reset" -> IF options = NoOptions
                           THEN reset(m, "smooth", NoOptions)
                           ELSE reset(m, "[object Object]", NoOptions)

\* the timeout callback of infinite
infiniteCall_withoutDelay(m, t, rs) ==
  LET options == [k \in DOMAIN t.env.options \ {"delay"} |-> t.env.options[k]]
      m1 == methodFunction(m, t.env.method, options, rs)
      m2 == Bump(m1, t.env.loop, "invoked")
  IN  [ m2 EXCEPT !.lastInvoke =
          [ n |-> m.lastInvoke.n + 1, loop |-> t.env.loop, method |-> t.env.method,
            at |-> now,
            stopped |-> m.loops[t.env.loop].expired > 0 /\ ~Pending(m, t.env.loop),
            halted |-> m.loops[t.env.loop].halted > 0 ] ]

infiniteCall(m, t, rs) ==
  LET m1 == methodFunction(m, t.env.method, t.env.options, rs)
      m2 == Bump(m1, t.env.loop, "invoked")
  IN  [ m2 EXCEPT !.lastInvoke =
          [ n |-> m.lastInvoke.n + 1, loop |-> t.env.loop, method |-> t.env.method,
            at |-> now,
            stopped |-> m.loops[t.env.loop].expired > 0 /\ ~Pending(m, t.env.loop),
            halted |-> m.loops[t.env.loop].halted > 0 ] ]

\* the numbers a callback draws from Math.random()
DrawCount(t) ==
  CASE t.cb = "fireworksTick" -> 4
    [] t.cb = "snowFrame" -> 5
    [] t.cb = "fallShoot" -> 2 * fallBursts
    [] t.cb = "infiniteCall" /\ t.env.method = "randomDirection" -> 3
    [] OTHER -> 0

\* Run as it would be if a delayed burst went to the renderer bound when the
\* call it stems from was made
Run_boundAtCall(m, t, rs) ==
  CASE t.cb = "launch" ->
         [ launchConfetti([m EXCEPT !.confettiInstance = m.log[t.origin].instance],
                          t.env.options)
             EXCEPT !.confettiInstance = m.confettiInstance ]
    [] t.cb = "infiniteTick" -> infiniteTick(m, t)
    [] t.cb = "infiniteCall" -> infiniteCall(m, t, rs)
    [] t.cb = "fireworksTick" -> fireworksTick(m, t, rs)
    [] t.cb = "snowStart" -> snowStart(m, t)
    [] t.cb = "snowFrame" -> snowFrame(m, t, rs)
    [] t.cb = "fallShoot" -> fallShoot(m, t, rs)
    [] t.cb = "prideFrame" -> prideFrame(m, t)
    [] t.cb = "fadeTick" -> fadeTick(m, t)
    [] t.cb = "colorsLaunch" -> colorsLaunchConfetti(m, t.env.colors, t.env.options)

Run(m, t, rs) ==
  CASE t.cb = "launch" -> launchConfetti(m, t.env.options)
    [] t.cb = "infiniteTick" -> infiniteTick(m, t)
    [] t.cb = "infiniteCall" -> infiniteCall(m, t, rs)
    [] t.cb = "fireworksTick" -> fireworksTick(m, t, rs)
    [] t.cb = "snowStart" -> snowStart(m, t)
    [] t.cb = "snowFrame" -> snowFrame(m, t, rs)
    [] t.cb = "fallShoot" -> fallShoot(m, t, rs)
    [] t.cb = "prideFrame" -> prideFrame(m, t)
    [] t.cb = "fadeTick" -> fadeTick(m, t)
    [] t.cb = "colorsLaunch" -> colorsLaunchConfetti(m, t.env.colors, t.env.options)

\* an interval that its callback has not cleared is registered again
Rearm(m, t) ==
  IF t.kind = "interval" /\ \E u \in m.timers : u.id = t.id /\ u.kind = "interval"
  THEN [ m EXCEPT !.timers =
           { IF u.id = t.id /\ u.kind = "interval"
             THEN [u EXCEPT !.due = now + u.wait, !.seq = m.nextSeq]
             ELSE u : u \in @ },
                  !.nextSeq = @ + 1 ]
  ELSE m

\* u is run before t whenever both are due: timers in the order of their
\* registration when the earlier one waits no longer than the later one,
\* animation-frame callbacks in the order of their registration
Precedes(u, t) ==
  /\ u.seq < t.seq
  /\ \/ u.kind = "frame" /\ t.kind = "frame"
     \/ u.kind # "frame" /\ t.kind # "frame" /\ u.wait <= t.wait

Due(t) == t \in timers /\ t.due <= now

CanRun(t) == Due(t) /\ \A u \in timers : Due(u) => ~Precedes(u, t)

\* the event loop runs the callback of timer t to completion
Callback(t) ==
  /\ CanRun(t)
  /\ \E rs \in Draws(DrawCount(t)) :
       LET m == Rearm(Run(IF t.kind = "interval" THEN [Here EXCEPT !.cur = t.origin]
                          ELSE [Here EXCEPT !.cur = t.origin, !.timers = @ \ {t}],
                          t, rs), t)
       IN  /\ Becomes(m)
           /\ event' = [ op |-> "callback", method |-> t.cb, arg |-> "",
                         options |-> NoOptions,
                         bursts |-> m.burstCount - burstCount, again |-> FALSE ]
  /\ UNCHANGED << now, calls, page, canvasArg >>

RunLaunch ==
  \E t \in timers :
    /\ t.cb = "launch"
    /\ Callback(t)

RunInfiniteTick ==
  \E t \in timers :
    /\ t.cb = "infiniteTick"
    /\ Callback(t)

RunInfiniteCall ==
  \E t \in timers :
    /\ t.cb = "infiniteCall"
    /\ Callback(t)

RunFireworksTick ==
  \E t \in timers :
    /\ t.cb = "fireworksTick"
    /\ Callback(t)

RunSnowStart ==
  \E t \in timers :
    /\ t.cb = "snowStart"
    /\ Callback(t)

RunSnowFrame ==
  \E t \in timers :
    /\ t.cb = "snowFrame"
    /\ Callback(t)

RunFallShoot ==
  \E t \in timers :
    /\ t.cb = "fallShoot"
    /\ Callback(t)

RunPrideFrame ==
  \E t \in timers :
    /\ t.cb = "prideFrame"
    /\ Callback(t)

RunFadeTick ==
  \E t \in timers :
    /\ t.cb = "fadeTick"
    /\ Callback(t)

RunColorsLaunch ==
  \E t \in timers :
    /\ t.cb = "colorsLaunch"
    /\ Callback(t)

\* the calls the page of this run makes
Budget ==
  CASE page = "all" -> MaxCalls
    [] page = "loops" -> MaxLoopCalls
    [] page = "surface" -> MaxSurfaceCalls
    [] page = "infinite" -> MaxInfiniteCalls
    [] page = "fade" -> MaxFadeCalls
    [] page = "effects" -> MaxEffectCalls
    [] page = "frames" -> MaxFrameCalls
    [] page = "colors" -> MaxColorsCalls
    [] page = "shapes" -> MaxShapeCalls
    [] page = "fireworks" -> MaxFireworkCalls
    [] page = "pride" -> MaxPrideCalls
    [] page = "delay" -> MaxDelayCalls
    [] page = "twice" -> MaxTwiceCalls

\* the instant the clock of this run is not advanced past
Horizon ==
  CASE page = "infinite" -> MaxInfiniteTime
    [] page = "fade" -> MaxFadeTime
    [] page = "fireworks" -> MaxFireworkTime
    [] OTHER -> MaxTime

\* time passes to the instant the next timer is due
Advance ==
  /\ timers # {}
  /\ \A t \in timers : t.due > now
  /\ \E t \in timers :
       /\ \A u \in timers : t.due <= u.due
       /\ t.due <= Horizon
       /\ now' = t.due
  /\ event' = [ op |-> "advance", method |-> "", arg |-> "", options |-> NoOptions,
                bursts |-> 0, again |-> FALSE ]
  /\ UNCHANGED << timers, nextSeq, defaults, confettiInstance, timerId,
                  animationFrameId, calls, page, canvasArg, burstCount, lastBurst,
                  clearCount, lastClear, loops, lastInvoke, log >>

(***************************************************************************)
(* The calls of the page, with the arguments explored.                     *)
(***************************************************************************)
\* on the page with its own defaults: a config that overrides a built-in
\* field, replaces origin by an object without y, and adds a field
ConstructorConfigs ==
  IF page = "effects"
  THEN { NoOptions,
         [ particleCount |-> RatInt(10), origin |-> [x |-> RatInt(0)],
           ticks |-> RatInt(77) ] }
  ELSE {NoOptions}

EffectOptions ==
  IF page = "effects"
  THEN { NoOptions, [delay |-> 120],
         [origin |-> [y |-> Rat(1, 10)], spread |-> RatInt(10)] }
  ELSE {NoOptions, [delay |-> 120]}

\* on the page that uses fireworks alone: the default duration, durations
\* that end within the run, and overrides of the fields fire sets
FireworksOptions ==
  CASE page = "effects" -> {[duration |-> 400], [duration |-> 400, delay |-> 120]}
    [] page = "fireworks" ->
         { NoOptions, [duration |-> 400], [duration |-> 600],
           [duration |-> 600, particleCount |-> RatInt(5)],
           [duration |-> 400, origin |-> [x |-> Rat(1, 2), y |-> Rat(1, 2)]] }
    [] OTHER -> {[duration |-> 400]}

FrameLoopOptions ==
  CASE page = "effects" -> {[duration |-> 150], [duration |-> 150, delay |-> 120]}
    [] page = "delay" -> { [duration |-> 150], [duration |-> 150, delay |-> 120],
                           [duration |-> 250, delay |-> 30] }
    [] OTHER -> {[duration |-> 150]}

\* on the page with shapes of its own: built-in names, a text that is no
\* built-in name, and a shape object the caller made with shapeFromText
FallOptions ==
  IF page = "shapes"
  THEN { NoOptions,
         [shapes |-> << star, Str("party") >>],
         [shapes |-> << square, shapeFromText("heart", RatInt(2)) >>, scalar |-> RatInt(2)],
         [shapes |-> << circle >>, delay |-> 120] }
  ELSE EffectOptions

\* on the page that uses pride and reset: the default duration, one that
\* ends within the run, and overrides of the fields frame sets
PrideOptions ==
  IF page = "pride"
  THEN { NoOptions, [duration |-> 150],
         [duration |-> 150, particleCount |-> RatInt(5)],
         [duration |-> 150, angle |-> RatInt(45), origin |-> [x |-> Rat(1, 2)]] }
  ELSE FrameLoopOptions

ResetTypes == {"instant", "smooth", "fade"}

ResetOptions ==
  CASE page = "fade" -> {NoOptions, [duration |-> 50], [duration |-> 100], [duration |-> 120]}
    [] page = "all" -> {[duration |-> 100], [duration |-> 120]}
    [] OTHER -> {[duration |-> 100]}

InfiniteMethods ==
  IF page = "twice"
  THEN {"cannon", "randomDirection", "realistic", "fall"}
  ELSE {"cannon"}

\* the default values of the parameters interval and duration of infinite
infiniteInterval == 1000

infiniteDuration == 5000

InfiniteIntervals == IF page = "infinite" THEN {100, infiniteInterval} ELSE {100}

InfiniteDurations == IF page = "infinite" THEN {250, 300, infiniteDuration} ELSE {250}

InfiniteOptions ==
  IF page \in {"infinite", "twice"}
  THEN {NoOptions, [delay |-> 30], [delay |-> 120]}
  ELSE {NoOptions, [delay |-> 120]}

Canvases == {NoInstance, "canvasA", "canvasB"}

ColorsArguments == {Undefined, Colors(<< >>), Colors(<< "#ff0000" >>)}

\* overrides of a field the effects set, with and without a delay
ColorsOptions ==
  { NoOptions, [particleCount |-> RatInt(7)],
    [delay |-> 120, spread |-> RatInt(10), angle |-> RatInt(45)] }

\* The page calls at an instant before the callbacks due at it have begun to
\* run, or after they have all run.
Idle == event.op # "callback" \/ \A t \in timers : t.due > now

\* the page has a call left to make and may make it now
CanCall == calls < Budget /\ now <= LastCall /\ Idle

\* the instance as a call of the page finds it; history: the call, the
\* instant, the binding in force, the particle counts of its bursts so far,
\* the shapes it has resolved and the warnings it has logged
Caller ==
  [ Here EXCEPT !.cur = calls + 1,
                !.log = (calls + 1 :>
                          [ method |-> "", arg |-> "", options |-> NoOptions, at |-> now,
                            instance |-> confettiInstance, counts |-> << >>,
                            reset |-> 0, late |-> 0, resolved |-> << >>,
                            warnings |-> 0, resetAt |-> 0, joined |-> 0 ]) @@ @ ]

\* the page calls a method that takes it from Caller to m
Call(method, arg, options, m) ==
  /\ calls' = calls + 1
  /\ Becomes([ m EXCEPT !.log[calls + 1].method = method,
                        !.log[calls + 1].arg = arg,
                        !.log[calls + 1].options = options ])
  /\ event' = [ op |-> "call", method |-> method, arg |-> arg, options |-> options,
                bursts |-> m.burstCount - burstCount,
                again |-> event.op = "call" /\ event.method = method /\ event.arg = arg ]
  /\ canvasArg' = IF method = "customCanvas" THEN arg ELSE canvasArg
  /\ UNCHANGED << now, page >>

CallCustom ==
  /\ CanCall
  /\ \E o \in EffectOptions : Call("custom", "", o, custom(Caller, o))

CallCannon ==
  /\ CanCall
  /\ \E o \in EffectOptions : Call("cannon", "", o, cannon(Caller, o))

CallRandomDirection ==
  /\ CanCall
  /\ \E o \in EffectOptions, rs \in Draws(3) :
       Call("randomDirection", "", o, randomDirection(Caller, o, rs))

CallRealistic ==
  /\ CanCall
  /\ \E o \in EffectOptions : Call("realistic", "", o, realistic(Caller, o))

CallFireworks ==
  /\ CanCall
  /\ \E o \in FireworksOptions : Call("fireworks", "", o, fireworks(Caller, o))

CallStars ==
  /\ CanCall
  /\ \E o \in EffectOptions : Call("stars", "", o, stars(Caller, o))

CallSnow ==
  /\ CanCall
  /\ \E o \in FrameLoopOptions : Call("snow", "", o, snow(Caller, o))

CallFall ==
  /\ CanCall
  /\ \E o \in FallOptions : Call("fall", "", o, fall(Caller, o))

CallPride ==
  /\ CanCall
  /\ \E o \in PrideOptions : Call("pride", "", o, pride(Caller, o))

CallInfinite ==
  /\ CanCall
  /\ \E method \in InfiniteMethods, interval \in InfiniteIntervals,
        duration \in InfiniteDurations, o \in InfiniteOptions :
       Call("infinite", method, o, infinite(Caller, method, interval, duration, o))

CallReset ==
  /\ CanCall
  /\ \E type \in ResetTypes, o \in ResetOptions :
       Call("reset", type, o, reset(Caller, type, o))

CallCustomCanvas ==
  /\ CanCall
  /\ \E canvas \in Canvases : Call("customCanvas", canvas, NoOptions, customCanvas(Caller, canvas))

CallColorsCustom ==
  /\ CanCall
  /\ \E colors \in ColorsArguments, o \in ColorsOptions :
       Call("custom", colors, o, colorsCustom(Caller, colors, o))

CallColorsCannon ==
  /\ CanCall
  /\ \E colors \in ColorsArguments, o \in ColorsOptions :
       Call("cannon", colors, o, colorsCannon(Caller, colors, o))

CallColorsRandomDirection ==
  /\ CanCall
  /\ \E colors \in ColorsArguments, o \in ColorsOptions, rs \in Draws(3) :
       Call("randomDirection", colors, o, colorsRandomDirection(Caller, colors, o, rs))

CallColorsRealistic ==
  /\ CanCall
  /\ \E colors \in ColorsArguments, o \in ColorsOptions :
       Call("realistic", colors, o, colorsRealistic(Caller, colors, o))

InitWith(p) ==
  /\ page = p
  /\ canvasArg = NoInstance
  /\ now = 0
  /\ timers = {}
  /\ nextSeq = 1
  /\ defaults \in {constructor(config) : config \in ConstructorConfigs}
  /\ confettiInstance = NoInstance
  /\ timerId = NoHandle
  /\ animationFrameId = NoHandle
  /\ calls = 0
  /\ burstCount = 0
  /\ lastBurst = [n |-> 0]
  /\ clearCount = 0
  /\ lastClear = 0
  /\ loops = [id \in {} |-> 0]
  /\ lastInvoke = [n |-> 0]
  /\ log = [c \in {} |-> 0]
  /\ event = [ op |-> "new", method |-> "", arg |-> "", options |-> NoOptions,
               bursts |-> 0, again |-> FALSE ]

Init == InitWith("all")

\* the callbacks the event loop runs
Callbacks ==
  \/ RunLaunch
  \/ RunInfiniteTick
  \/ RunInfiniteCall
  \/ RunFireworksTick
  \/ RunSnowStart
  \/ RunSnowFrame
  \/ RunFallShoot
  \/ RunPrideFrame
  \/ RunFadeTick

Next ==
  \/ CallCustom
  \/ CallCannon
  \/ CallRandomDirection
  \/ CallRealistic
  \/ CallFireworks
  \/ CallStars
  \/ CallSnow
  \/ CallFall
  \/ CallPride
  \/ CallInfinite
  \/ CallReset
  \/ CallCustomCanvas
  \/ Callbacks
  \/ Advance

Spec == Init /\ [][Next]_vars

(***************************************************************************)
(* A page that starts loops and resets them.                               *)
(***************************************************************************)
InitLoops == InitWith("loops")

NextLoops ==
  \/ CallInfinite
  \/ CallFireworks
  \/ CallSnow
  \/ CallPride
  \/ CallReset
  \/ RunLaunch
  \/ RunInfiniteTick
  \/ RunInfiniteCall
  \/ RunFireworksTick
  \/ RunSnowStart
  \/ RunSnowFrame
  \/ RunPrideFrame
  \/ RunFadeTick
  \/ Advance

LoopSpec == InitLoops /\ [][NextLoops]_vars

(***************************************************************************)
(* A page that binds canvases and fires the effects.                       *)
(***************************************************************************)
InitSurface == InitWith("surface")

NextSurface ==
  \/ CallCustomCanvas
  \/ CallCustom
  \/ CallCannon
  \/ CallRandomDirection
  \/ CallRealistic
  \/ CallFireworks
  \/ CallStars
  \/ CallSnow
  \/ CallFall
  \/ CallPride
  \/ RunLaunch
  \/ RunFireworksTick
  \/ RunSnowStart
  \/ RunSnowFrame
  \/ RunFallShoot
  \/ RunPrideFrame
  \/ Advance

SurfaceSpec == InitSurface /\ [][NextSurface]_vars

(***************************************************************************)
(* A page that uses infinite alone, with more intervals, durations and     *)
(* delays.                                                                 *)
(***************************************************************************)
InitInfinite == InitWith("infinite")

NextInfinite ==
  \/ CallInfinite
  \/ RunInfiniteTick
  \/ RunInfiniteCall
  \/ RunLaunch
  \/ Advance

InfiniteSpec == InitInfinite /\ [][NextInfinite]_vars

(***************************************************************************)
(* A page that uses reset alone, with more durations.                      *)
(***************************************************************************)
InitFade == InitWith("fade")

NextFade ==
  \/ CallReset
  \/ RunFadeTick
  \/ Advance

FadeSpec == InitFade /\ [][NextFade]_vars

(***************************************************************************)
(* A page that fires the effects, with and without a delay, on an instance *)
(* constructed with or without a config of its own.                        *)
(***************************************************************************)
InitEffects == InitWith("effects")

NextEffects ==
  \/ CallCustom
  \/ CallCannon
  \/ CallRandomDirection
  \/ CallRealistic
  \/ CallFireworks
  \/ CallStars
  \/ CallSnow
  \/ CallFall
  \/ CallPride
  \/ RunLaunch
  \/ RunFireworksTick
  \/ RunSnowStart
  \/ RunSnowFrame
  \/ RunFallShoot
  \/ RunPrideFrame
  \/ Advance

EffectSpec == InitEffects /\ [][NextEffects]_vars

(***************************************************************************)
(* A page that starts frame loops and resets them.                         *)
(***************************************************************************)
InitFrames == InitWith("frames")

NextFrames ==
  \/ CallSnow
  \/ CallPride
  \/ CallReset
  \/ RunLaunch
  \/ RunSnowStart
  \/ RunSnowFrame
  \/ RunPrideFrame
  \/ RunFadeTick
  \/ Advance

FrameSpec == InitFrames /\ [][NextFrames]_vars

(***************************************************************************)
(* A page that fires the burst effects of the class with the colors        *)
(* argument.                                                               *)
(***************************************************************************)
InitColors == InitWith("colors")

NextColors ==
  \/ CallColorsCustom
  \/ CallColorsCannon
  \/ CallColorsRandomDirection
  \/ CallColorsRealistic
  \/ RunColorsLaunch
  \/ Advance

ColorsSpec == InitColors /\ [][NextColors]_vars

(***************************************************************************)
(* A page that uses fall with shapes of its own.                           *)
(***************************************************************************)
InitShapes == InitWith("shapes")

NextShapes ==
  \/ CallFall
  \/ RunFallShoot
  \/ RunLaunch
  \/ Advance

ShapeSpec == InitShapes /\ [][NextShapes]_vars

(***************************************************************************)
(* A page that uses fireworks alone, with more durations and options.      *)
(***************************************************************************)
InitFireworks == InitWith("fireworks")

NextFireworks ==
  \/ CallFireworks
  \/ RunFireworksTick
  \/ RunLaunch
  \/ Advance

FireworkSpec == InitFireworks /\ [][NextFireworks]_vars

(***************************************************************************)
(* A page that uses pride, with more options, and reset.                   *)
(***************************************************************************)
InitPride == InitWith("pride")

NextPride ==
  \/ CallPride
  \/ CallReset
  \/ RunPrideFrame
  \/ RunLaunch
  \/ RunFadeTick
  \/ Advance

PrideSpec == InitPride /\ [][NextPride]_vars

\* a page that calls snow, with and without an initial delay, and reset
InitDelay == InitWith("delay")

NextDelay ==
  \/ CallSnow
  \/ CallReset
  \/ RunSnowStart
  \/ RunSnowFrame
  \/ RunFadeTick
  \/ Advance

DelaySpec == InitDelay /\ [][NextDelay]_vars

\* a page that calls infinite with several effect methods, with and without a delay
InitTwice == InitWith("twice")

NextTwice ==
  \/ CallInfinite
  \/ RunInfiniteTick
  \/ RunInfiniteCall
  \/ RunFallShoot
  \/ RunLaunch
  \/ Advance

TwiceSpec == InitTwice /\ [][NextTwice]_vars

(***************************************************************************)
(* What the claims speak of.                                               *)
(***************************************************************************)
\* the event is a call of reset with this type
ResetCalled(e, type) == e.op = "call" /\ e.method = "reset" /\ e.arg = type

\* the invocations of loop id still queued behind options.delay
QueuedCalls(id) == {t \in timers : t.cb = "infiniteCall" /\ t.env.loop = id}

\* the intervals of infinite and fireworks that are still ticking
TickingLoops ==
  {t \in timers : t.kind = "interval" /\ t.cb \in {"infiniteTick", "fireworksTick"}}

\* the renderer of the surface last passed to customCanvas
BoundRenderer == IF canvasArg = NoInstance THEN DefaultRenderer ELSE canvasArg

(***************************************************************************)
(* C1: where infinite is the only loop the page has started: with no delay *)
(* the loop, once its interval is gone and its invocations have all run,   *)
(* has invoked the effect method floor(duration/interval) times, and,      *)
(* whatever the delay, no invocation of the effect method runs once the    *)
(* interval has stopped itself.                                            *)
(***************************************************************************)
C1_CountAndQuietAfterStop ==
  Cardinality(DOMAIN loops) = 1 =>
    /\ \A id \in DOMAIN loops :
         ( /\ loops[id].kind = "infinite"
           /\ loops[id].delay = 0
           /\ ~Pending(Here, id)
           /\ QueuedCalls(id) = {} )
         => loops[id].invoked = loops[id].duration \div loops[id].period
    /\ lastInvoke.n > 0 => ~lastInvoke.stopped

(***************************************************************************)
(* C2: where infinite is the only loop the page has started: once          *)
(* reset('instant') has been called before the end time of the loop, the   *)
(* loop invokes the effect method no more, its interval is not pending,    *)
(* and timerId is null when the reset returns.                             *)
(***************************************************************************)
C2_InstantResetHaltsInfinite ==
  Cardinality(DOMAIN loops) = 1 =>
    /\ lastInvoke.n > 0 => ~lastInvoke.halted
    /\ \A id \in DOMAIN loops :
         (loops[id].kind = "infinite" /\ loops[id].halted > 0) => ~Pending(Here, id)
    /\ ResetCalled(event, "instant") => timerId = NoHandle

(***************************************************************************)
(* C3: when reset('instant') returns, no interval (infinite, fireworks,    *)
(* fade) and no animation-frame callback (snow, pride) is pending.         *)
(***************************************************************************)
C3_NoTimerSurvivesInstantReset ==
  ResetCalled(event, "instant") =>
    \A t \in timers : t.kind \notin {"interval", "frame"}

(***************************************************************************)
(* C4: at most one interval started by infinite or fireworks is ticking.   *)
(***************************************************************************)
C4_AtMostOneTickingLoop == Cardinality(TickingLoops) <= 1

\* the fade ticks of the loops in ids, all told
RECURSIVE TicksOf(_)
TicksOf(ids) ==
  IF ids = {} THEN 0
  ELSE LET id == CHOOSE i \in ids : TRUE
       IN  loops[id].ticks + TicksOf(ids \ {id})

(***************************************************************************)
(* C5: a fade started by reset('smooth', {duration: D}) with D a multiple  *)
(* of 50 fires one burst per tick, the k-th at 50 * k ms after the call    *)
(* with scalar 1 - k / (D / 50); it has fired D / 50 bursts when its time  *)
(* is over and never more; its interval is pending until tick D / 50; and  *)
(* it has invoked the global clear once from tick D / 50 on, not before.   *)
(***************************************************************************)
C5_FadeSchedule ==
  /\ burstCount = TicksOf(DOMAIN loops)
  /\ \A id \in DOMAIN loops :
       LET l == loops[id]
           steps == l.duration \div stepTime
       IN  (l.kind = "fade" /\ l.duration % stepTime = 0) =>
             /\ l.ticks <= steps
             /\ now > l.start + l.duration => l.ticks = steps
             /\ l.ticks * stepTime <= now - l.start
             /\ Pending(Here, id) <=> l.ticks < steps
             /\ l.clears = (IF l.ticks = steps THEN 1 ELSE 0)
             /\ (lastBurst.n > 0 /\ lastBurst.loop = id) =>
                  /\ lastBurst.at = l.start + stepTime * l.ticks
                  /\ lastBurst.config.scalar = Rat(steps - l.ticks, steps)

\* C5: the fade of reset('smooth') with the default duration has just fired
\* its 40th and last burst, with scalar 0, and cleared
C5_FadeCompleted ==
  \E id \in DOMAIN loops :
    /\ loops[id].kind = "fade"
    /\ loops[id].duration = resetDuration
    /\ loops[id].ticks = 40
    /\ loops[id].clears = 1
    /\ ~Pending(Here, id)
    /\ lastBurst.n > 0
    /\ lastBurst.loop = id
    /\ lastBurst.config.scalar = RatInt(0)
    /\ lastClear = now

\* the fields of the instance and its pending timers
Instance == << timerId, animationFrameId, timers, confettiInstance, defaults >>

(***************************************************************************)
(* C6: a call of reset('instant') that follows a call of reset('instant')  *)
(* leaves timerId, animationFrameId, the pending timers, the surface       *)
(* binding and the defaults as the first call left them.                   *)
(***************************************************************************)
C6_InstantResetIdempotent ==
  [][ (ResetCalled(event, "instant") /\ ResetCalled(event', "instant") /\ calls' = calls + 1)
        => Instance' = Instance ]_vars

\* C6: reset('instant') has been called twice in a row while a loop it
\* halted and a timer it could not cancel were there
C6_ResetTwice ==
  /\ ResetCalled(event, "instant")
  /\ event.again
  /\ \E id \in DOMAIN loops : loops[id].halted > 0
  /\ timers # {}

(***************************************************************************)
(* C7: when reset returns from a call with a type that is neither          *)
(* 'instant' nor 'smooth', timerId is null, the frame loop is cancelled    *)
(* and the global clear has been invoked, as after reset('instant').       *)
(***************************************************************************)
C7_UnknownTypeResetsInstantly ==
  (event.op = "call" /\ event.method = "reset" /\ event.arg \notin {"instant", "smooth"}) =>
    /\ timerId = NoHandle
    /\ animationFrameId = NoHandle
    /\ lastClear = now /\ clearCount > 0

(***************************************************************************)
(* C8: a burst an effect method dispatches goes to the renderer of the     *)
(* surface last passed to customCanvas, and to the default renderer if     *)
(* that was null or customCanvas was never called.                         *)
(***************************************************************************)
C8_EffectsFollowBinding ==
  (event.bursts > 0 /\ lastBurst.via = "launchConfetti") =>
    lastBurst.renderer = BoundRenderer

\* C8: after canvasA and then canvasB were bound, an effect has dispatched a
\* burst, to the renderer of canvasB
C8_BurstOnSecondSurface ==
  /\ event.bursts > 0
  /\ lastBurst.via = "launchConfetti"
  /\ canvasArg = "canvasB"
  /\ lastBurst.renderer = "canvasB"
  /\ calls = 3

(***************************************************************************)
(* C9: while a surface is bound, every burst handed to the rendering       *)
(* primitive, the fade bursts of reset('smooth') too, goes to the renderer *)
(* of that surface.                                                        *)
(***************************************************************************)
C9_AllBurstsFollowBinding ==
  (event.bursts > 0 /\ confettiInstance # NoInstance) =>
    lastBurst.renderer = confettiInstance

(***************************************************************************)
(* C10: the particle count of every configuration handed to the rendering  *)
(* primitive is a non-negative integer.                                    *)
(***************************************************************************)
C10_ParticleCountIsNatural ==
  lastBurst.n > 0 =>
    /\ IsInteger(lastBurst.config.particleCount)
    /\ lastBurst.config.particleCount.num >= 0

\* the merge of three layers field by field: the value of the highest layer
\* that has the field
Layered(low, mid, high) ==
  [ k \in DOMAIN low \cup DOMAIN mid \cup DOMAIN high |->
      IF k \in DOMAIN high THEN high[k]
      ELSE IF k \in DOMAIN mid THEN mid[k] ELSE low[k] ]

(***************************************************************************)
(* C11: the configuration launchConfetti hands to the renderer has, field  *)
(* by field, the value of the per-call config where that has the field,    *)
(* else of the constructor config, else of the built-in defaults; a nested *)
(* object such as origin comes whole from one layer.                       *)
(***************************************************************************)
C11_LayeredMerge ==
  (lastBurst.n > 0 /\ lastBurst.via = "launchConfetti") =>
    \E config \in ConstructorConfigs :
      /\ defaults = constructor(config)
      /\ lastBurst.config = Layered(BuiltInDefaults, config, lastBurst.given)

\* C11: custom has dispatched a burst that takes origin (without x) and
\* spread from the call, particleCount and ticks from the constructor config
\* and decay from the built-in defaults
C11_ThreeLayers ==
  /\ lastBurst.n > 0
  /\ lastBurst.origin \in DOMAIN log
  /\ log[lastBurst.origin].method = "custom"
  /\ lastBurst.config.origin = [y |-> Rat(1, 10)]
  /\ lastBurst.config.spread = RatInt(10)
  /\ lastBurst.config.particleCount = RatInt(10)
  /\ lastBurst.config.ticks = RatInt(77)
  /\ lastBurst.config.decay = Rat(9, 10)

\* the call c of the page was method() with no argument
Plain(c, method) == log[c].method = method /\ log[c].options = NoOptions

(***************************************************************************)
(* C12: cannon() with no overrides dispatches one burst, at once, never a  *)
(* second; its particle count is 100 and every other field is that of the  *)
(* defaults of the instance.                                               *)
(***************************************************************************)
C12_CannonDefault ==
  \A c \in DOMAIN log :
    Plain(c, "cannon") =>
      /\ Len(log[c].counts) <= 1
      /\ now > log[c].at => Len(log[c].counts) = 1
      /\ (lastBurst.n > 0 /\ lastBurst.origin = c) =>
           /\ lastBurst.config.particleCount = RatInt(100)
           /\ DOMAIN lastBurst.config = DOMAIN defaults
           /\ \A k \in DOMAIN defaults \ {"particleCount"} :
                lastBurst.config[k] = defaults[k]

\* C12: cannon() has dispatched its burst on an instance whose own default
\* particle count is 10
C12_CannonFired ==
  /\ lastBurst.n > 0
  /\ lastBurst.origin \in DOMAIN log
  /\ Plain(lastBurst.origin, "cannon")
  /\ defaults.particleCount = RatInt(10)
  /\ lastBurst.config.particleCount = RatInt(100)

\* s is the beginning of r
IsPrefix(s, r) == Len(s) <= Len(r) /\ \A i \in 1..Len(s) : s[i] = r[i]

realisticCounts == << RatInt(50), RatInt(40), RatInt(70), RatInt(20), RatInt(20) >>

(***************************************************************************)
(* C13: realistic called without a particleCount override dispatches five  *)
(* bursts with particle counts 50, 40, 70, 20, 20 in this order: what it   *)
(* has dispatched is always a beginning of that list, and the whole list   *)
(* once its delay has passed.                                              *)
(***************************************************************************)
C13_RealisticCounts ==
  \A c \in DOMAIN log :
    (log[c].method = "realistic" /\ ~Has(log[c].options, "particleCount")) =>
      /\ IsPrefix(log[c].counts, realisticCounts)
      /\ now > log[c].at + OrMs(log[c].options, "delay", 0) =>
           log[c].counts = realisticCounts

\* C13: realistic has dispatched its five bursts on an instance whose own
\* default particle count is 10
C13_RealisticDone ==
  \E c \in DOMAIN log :
    /\ log[c].method = "realistic"
    /\ log[c].counts = realisticCounts
    /\ defaults.particleCount = RatInt(10)

\* a is an integer of lo .. hi - 1
IntegerBelow(a, hi) == IsInteger(a) /\ 0 <= a.num /\ a.num < hi

(***************************************************************************)
(* C14: a burst of randomDirection called with none of particleCount,      *)
(* spread and angle overridden has an integer particle count in [0, 300),  *)
(* an integer spread in [0, 360) and an integer angle in [0, 360).         *)
(***************************************************************************)
C14_RandomDirectionRanges ==
  ( /\ lastBurst.n > 0
    /\ lastBurst.origin \in DOMAIN log
    /\ log[lastBurst.origin].method = "randomDirection"
    /\ \A k \in {"particleCount", "spread", "angle"} :
         ~Has(log[lastBurst.origin].options, k) )
  => /\ IntegerBelow(lastBurst.config.particleCount, 300)
     /\ IntegerBelow(lastBurst.config.spread, 360)
     /\ IntegerBelow(lastBurst.config.angle, 360)

\* C14: randomDirection() has dispatched a burst drawn with the largest
\* random value: 299 particles, spread 359, angle 359
C14_LargestDraw ==
  /\ lastBurst.n > 0
  /\ lastBurst.origin \in DOMAIN log
  /\ Plain(lastBurst.origin, "randomDirection")
  /\ lastBurst.config.particleCount = RatInt(299)
  /\ lastBurst.config.spread = RatInt(359)
  /\ lastBurst.config.angle = RatInt(359)

(***************************************************************************)
(* C15: no call of an effect method dispatches a burst before it returns,  *)
(* and a burst that stems from a call with options.delay = d (0 if absent) *)
(* is dispatched no earlier than d ms after the call.                      *)
(***************************************************************************)
C15_NoBurstBeforeDelay ==
  /\ event.op = "call" => event.bursts = 0
  /\ (lastBurst.n > 0 /\ lastBurst.origin \in DOMAIN log) =>
       lastBurst.at >= log[lastBurst.origin].at
                         + OrMs(log[lastBurst.origin].options, "delay", 0)

\* C15: a burst of snow called with a delay has been dispatched
C15_DelayedSnowBurst ==
  /\ lastBurst.n > 0
  /\ lastBurst.origin \in DOMAIN log
  /\ log[lastBurst.origin].method = "snow"
  /\ Has(log[lastBurst.origin].options, "delay")

\* the page has not called reset
NoResetCalled == \A c \in DOMAIN log : log[c].method # "reset"

(***************************************************************************)
(* C16: with no reset called, the interval of every loop started by        *)
(* infinite or fireworks is gone once a whole period has passed since the  *)
(* end time of the loop, however many loops were started.                  *)
(***************************************************************************)
C16_LoopsStopThemselves ==
  NoResetCalled =>
    \A id \in DOMAIN loops :
      ( /\ loops[id].kind \in {"infinite", "fireworks"}
        /\ now > loops[id].start + loops[id].duration + loops[id].period )
      => ~Pending(Here, id)

(***************************************************************************)
(* C17: with no reset called, a handle the instance tracks is the handle   *)
(* of a loop still running: timerId is null or names a pending interval,   *)
(* animationFrameId is null or names a requested animation frame.          *)
(***************************************************************************)
C17_TrackedHandleIsLive ==
  NoResetCalled =>
    /\ timerId # NoHandle => Pending(Here, timerId)
    /\ animationFrameId # NoHandle =>
         \E t \in timers : t.kind = "frame" /\ t.id = animationFrameId

(***************************************************************************)
(* C18: no frame callback of a snow or pride loop that was running when    *)
(* reset was called gets past its guard after the reset, to launch a burst *)
(* and request another frame.                                              *)
(***************************************************************************)
C18_NoFrameWorkAfterReset == \A c \in DOMAIN log : log[c].late = 0

\* the timers of the delayed bursts not yet dispatched
DelayedBursts == {t \in timers : t.cb = "launch"}

LaterBindings(c) == {k \in DOMAIN log : k > c /\ log[k].method = "customCanvas"}

\* the renderer selected by the last of them
LastBound(c) ==
  LET k == CHOOSE j \in LaterBindings(c) : \A i \in LaterBindings(c) : i <= j
  IN  IF log[k].arg = NoInstance THEN DefaultRenderer ELSE log[k].arg

(***************************************************************************)
(* C20: a delayed burst of an effect call that was followed by calls of    *)
(* customCanvas before the delay ended goes to the renderer the last of    *)
(* those calls selected, not to the one bound when the effect was called.  *)
(***************************************************************************)
C20_BindingAtFireTime ==
  ( /\ event.op = "callback" /\ event.method = "launch" /\ event.bursts > 0
    /\ lastBurst.origin \in DOMAIN log
    /\ LaterBindings(lastBurst.origin) # {} )
  => lastBurst.renderer = LastBound(lastBurst.origin)

\* C20: cannon was called with a delay while canvasA was bound, then
\* customCanvas(null): the burst has gone to the default renderer
C20_ReboundBeforeFire ==
  /\ event.op = "callback" /\ event.method = "launch" /\ event.bursts > 0
  /\ lastBurst.origin \in DOMAIN log
  /\ log[lastBurst.origin].method = "cannon"
  /\ Has(log[lastBurst.origin].options, "delay")
  /\ log[lastBurst.origin].instance = "canvasA"
  /\ LaterBindings(lastBurst.origin) # {}
  /\ lastBurst.renderer = DefaultRenderer

\* the delay the caller asked for the burst behind timer t
DelayAsked(t) == OrMs(t.env.options, "delay", 0)

\* the instant the timer t was set
SetAt(t) == t.due - t.wait

(***************************************************************************)
(* C21: when a delayed burst is dispatched, every burst still pending that *)
(* asked for the same delay was scheduled after it, and every burst still  *)
(* pending that was scheduled at the same instant with another delay asked *)
(* for a longer one.                                                       *)
(***************************************************************************)
C21_DispatchOrder ==
  [][ \A t \in DelayedBursts :
        t \notin timers' =>
          \A u \in DelayedBursts \ {t} :
            /\ DelayAsked(u) = DelayAsked(t) => t.seq < u.seq
            /\ (SetAt(u) = SetAt(t) /\ DelayAsked(u) # DelayAsked(t)) =>
                 DelayAsked(t) < DelayAsked(u) ]_vars

\* C21: cannon({delay: 120}) and then realistic() were called at one instant:
\* realistic has dispatched its first two bursts, 50 and 40, its other three
\* are pending, and so is the burst of cannon, scheduled before them
C21_LaterCallFiresFirst ==
  /\ 1 \in DOMAIN log /\ 2 \in DOMAIN log
  /\ log[1].method = "cannon" /\ log[1].options = [delay |-> 120]
  /\ Plain(2, "realistic")
  /\ log[1].at = log[2].at
  /\ log[1].counts = << >>
  /\ log[2].counts = << RatInt(50), RatInt(40) >>
  /\ Cardinality({t \in DelayedBursts : t.origin = 2}) = 3
  /\ \E t \in DelayedBursts : t.origin = 1

\* the named effects
NamedEffects ==
  { "custom", "cannon", "randomDirection", "realistic", "fireworks", "stars", "snow",
    "fall", "pride" }

(***************************************************************************)
(* C22: in a burst of a named effect, of either class, every field the      *)
(* caller's override supplies has the value the override gives it.         *)
(***************************************************************************)
C22_OverrideWins ==
  ( /\ lastBurst.n > 0
    /\ lastBurst.via = "launchConfetti"
    /\ lastBurst.origin \in DOMAIN log
    /\ log[lastBurst.origin].method \in NamedEffects )
  => \A k \in DOMAIN log[lastBurst.origin].options :
       /\ Has(lastBurst.config, k)
       /\ lastBurst.config[k] = log[lastBurst.origin].options[k]

\* the call c of the page was fall with shapes of its own
FallWithShapes(c) == log[c].method = "fall" /\ Has(log[c].options, "shapes")

\* the shape is a string that is not the name of a built-in shape
RawText(shape) == shape.type = "string" /\ shape \notin {circle, square, star}

(***************************************************************************)
(* C23: the shape list of a burst of fall called with options.shapes is    *)
(* the list fall has resolved, and has no string in it that is not the     *)
(* name of a built-in shape.                                               *)
(***************************************************************************)
C23_BurstsCarryResolvedShapes ==
  ( /\ lastBurst.n > 0
    /\ lastBurst.origin \in DOMAIN log
    /\ FallWithShapes(lastBurst.origin) )
  => /\ lastBurst.config.shapes = log[lastBurst.origin].resolved
     /\ \A i \in 1..Len(lastBurst.config.shapes) : ~RawText(lastBurst.config.shapes[i])

(***************************************************************************)
(* C24, as claimed: for every string of options.shapes that is not the     *)
(* name of a built-in shape, fall logs a warning and puts circle in its    *)
(* place in the list it resolves.                                          *)
(***************************************************************************)
C24_TextWarnsAndBecomesCircle ==
  \A c \in DOMAIN log :
    FallWithShapes(c) =>
      \A i \in 1..Len(log[c].options.shapes) :
        RawText(log[c].options.shapes[i]) =>
          /\ log[c].warnings > 0
          /\ log[c].resolved[i] = circle

\* the shapes of the list that are not strings and not built-in shapes
Foreign(shapes) ==
  {i \in 1..Len(shapes) : shapes[i].type # "string" /\ shapes[i] \notin {circle, square, star}}

(***************************************************************************)
(* C24, amended: in the list fall resolves, a shape that is not a string   *)
(* and not a built-in shape becomes circle, with one warning logged for    *)
(* each; a string that is not the name of a built-in shape becomes the     *)
(* output of the text-to-shape adapter for that text and options.scalar    *)
(* (1 if absent), with no warning; a built-in name stays as it is.         *)
(***************************************************************************)
C24_OnlyForeignShapesWarn ==
  \A c \in DOMAIN log :
    FallWithShapes(c) =>
      LET shapes == log[c].options.shapes
          resolved == log[c].resolved
      IN  /\ Len(resolved) = Len(shapes)
          /\ log[c].warnings = Cardinality(Foreign(shapes))
          /\ \A i \in 1..Len(shapes) :
               resolved[i] =
                 IF i \in Foreign(shapes) THEN circle
                 ELSE IF RawText(shapes[i])
                      THEN shapeFromText(shapes[i].text,
                                         OrNum(log[c].options, "scalar", RatInt(1)))
                      ELSE shapes[i]

\* C24: fall was called with a text that is no built-in name, which became a
\* shape of the adapter with no warning, and with a shape object of the
\* caller, which became circle with a warning
C24_TextAndForeignResolved ==
  \E c, d \in DOMAIN log :
    /\ FallWithShapes(c) /\ FallWithShapes(d)
    /\ log[c].options.shapes = << star, Str("party") >>
    /\ log[c].resolved = << star, shapeFromText("party", RatInt(1)) >>
    /\ log[c].warnings = 0
    /\ log[d].options.shapes = << square, shapeFromText("heart", RatInt(2)) >>
    /\ log[d].resolved = << square, circle >>
    /\ log[d].warnings = 1

\* this step is the run of the callback cb of the interval or frame t
Ran(t, cb) ==
  /\ t.cb = cb
  /\ t \notin timers'
  /\ event'.op = "callback" /\ event'.method = cb

\* the bursts this step has scheduled
Scheduled == {u \in timers' \ timers : u.cb = "launch"}

\* a is in [lo, hi]
RatWithin(a, lo, hi) == RatLeq(lo, a) /\ RatLeq(a, hi)

\* no count of the sequence is larger than the one before it
NonIncreasing(counts) ==
  \A i \in 1..Len(counts) - 1 : RatLeq(counts[i + 1], counts[i])

\* what the tick t of fireworks does in this step; the fields of fields,
\* if options supplies them, are left to options
FireworksTickDoes(t, fields) ==
  LET options == t.env.options
      timeLeft == t.env.animationEnd - now
      duration == OrMs(options, "duration", fireworksDuration)
  IN  /\ t.due = now
      /\ (now - loops[t.id].start) % fireworksPeriod = 0
      /\ IF timeLeft > 0
         THEN /\ Cardinality(Scheduled) = 2
              /\ \E v \in timers' :
                   v.id = t.id /\ v.kind = "interval" /\ v.due = now + fireworksPeriod
              /\ ("particleCount" \in fields /\ Has(options, "particleCount"))
                 \/ \A u \in Scheduled :
                      u.env.options.particleCount = Rat(50 * timeLeft, duration)
              /\ ("origin" \in fields /\ Has(options, "origin"))
                 \/ \E u, v \in Scheduled :
                      /\ u # v
                      /\ RatWithin(u.env.options.origin.x, Rat(1, 10), Rat(3, 10))
                      /\ RatWithin(v.env.options.origin.x, Rat(7, 10), Rat(9, 10))
              /\ \A u \in Scheduled : \A k \in DOMAIN options :
                   u.env.options[k] = options[k]
         ELSE /\ Scheduled = {}
              /\ ~\E v \in timers' : v.id = t.id
      /\ t.origin \in DOMAIN log => NonIncreasing(log'[t.origin].counts)

(***************************************************************************)
(* C25, as claimed: fireworks ticks at multiples of 250 ms after its call; *)
(* a tick with time left schedules two bursts, both with particle count    *)
(* 50 * timeLeft / duration, one with origin x in [0.1, 0.3] and one with  *)
(* x in [0.7, 0.9], and stays pending; the counts of its bursts never      *)
(* increase; a tick with no time left schedules nothing and clears its     *)
(* interval.                                                               *)
(***************************************************************************)
C25_TickAsClaimed ==
  [][ \A t \in timers : Ran(t, "fireworksTick") => FireworksTickDoes(t, {}) ]_vars

(***************************************************************************)
(* C25, amended: the same, except that a particleCount or an origin that   *)
(* options supplies is carried by both bursts in place of the computed     *)
(* count and of the two drawn origins.                                     *)
(***************************************************************************)
C25_TickUnlessOverridden ==
  [][ \A t \in timers :
        Ran(t, "fireworksTick") => FireworksTickDoes(t, {"particleCount", "origin"}) ]_vars

\* C25: fireworks({duration: 600}) has ticked three times: it has dispatched
\* two bursts of 175/6 particles, then two of 25/3, and then cleared itself
C25_TwoVolleysAndExpiry ==
  \E c \in DOMAIN log :
    /\ log[c].method = "fireworks" /\ log[c].options = [duration |-> 600]
    /\ log[c].counts = << Rat(175, 6), Rat(175, 6), Rat(25, 3), Rat(25, 3) >>
    /\ \E id \in DOMAIN loops :
         /\ loops[id].kind = "fireworks" /\ loops[id].start = log[c].at
         /\ loops[id].duration = 600
         /\ loops[id].expired = 1
         /\ ~Pending(Here, id)

\* the animation frames this step has requested
Requested == {f \in timers' \ timers : f.kind = "frame"}

\* the field k of the burst behind timer u is v, or options supplies k and
\* k is one of fields
Carries(u, k, v, options, fields) ==
  IF k \in fields /\ Has(options, k) THEN TRUE ELSE u.env.options[k] = v

\* what the frame t of pride does in this step; the fields of fields, if
\* options supplies them, are left to options
PrideFrameDoes(t, fields) ==
  LET options == t.env.options
      timeLeft == t.env.end - now
  IN  IF timeLeft > 0 /\ animationFrameId # NoHandle
      THEN /\ Cardinality(Scheduled) = 2
           /\ \A u \in Scheduled :
                /\ Carries(u, "particleCount", RatInt(2), options, fields)
                /\ Carries(u, "spread", RatInt(55), options, fields)
                /\ \A k \in DOMAIN options : u.env.options[k] = options[k]
           /\ \E u, v \in Scheduled :
                /\ u # v
                /\ Carries(u, "angle", RatInt(60), options, fields)
                /\ Carries(u, "origin", [x |-> RatInt(0), y |-> Rat(1, 2)], options, fields)
                /\ Carries(v, "angle", RatInt(120), options, fields)
                /\ Carries(v, "origin", [x |-> RatInt(1), y |-> Rat(1, 2)], options, fields)
           /\ \E f \in Requested :
                /\ Requested = {f}
                /\ f.cb = "prideFrame" /\ f.env = t.env
                /\ animationFrameId' = f.id
      ELSE /\ Scheduled = {}
           /\ Requested = {}
           /\ animationFrameId' = animationFrameId

(***************************************************************************)
(* C26, as claimed: a frame of pride that runs while time is left and      *)
(* animationFrameId is not null schedules two bursts, of 2 particles and   *)
(* spread 55 each, one with angle 60 from x = 0 and one with angle 120     *)
(* from x = 1, and requests the next frame; a frame that runs at or after  *)
(* the end time, or while animationFrameId is null, schedules no burst and *)
(* requests no frame.                                                      *)
(***************************************************************************)
C26_FrameAsClaimed ==
  [][ \A t \in timers : Ran(t, "prideFrame") => PrideFrameDoes(t, {}) ]_vars

(***************************************************************************)
(* C26, amended: the same, except that a particleCount, spread, angle or   *)
(* origin that options supplies is carried by both bursts in place of the  *)
(* value the frame sets.                                                   *)
(***************************************************************************)
C26_FrameUnlessOverridden ==
  [][ \A t \in timers :
        Ran(t, "prideFrame") =>
          PrideFrameDoes(t, {"particleCount", "spread", "angle", "origin"}) ]_vars

\* C26: of two pride loops the first has outlived a reset: its frame has run
\* with time left while animationFrameId was null and has scheduled nothing,
\* after an earlier frame of it had dispatched its two bursts
C26_FrameFoundHandleNull ==
  /\ event.op = "callback" /\ event.method = "prideFrame"
  /\ animationFrameId = NoHandle
  /\ timers = {}
  /\ \E c, r \in DOMAIN log :
       /\ c < r
       /\ log[c].method = "pride" /\ log[c].options = NoOptions
       /\ log[c].counts = << RatInt(2), RatInt(2) >>
       /\ log[r].method = "reset" /\ log[r].arg = "instant"
       /\ log[r].at > log[c].at

(***************************************************************************)
(* C27: no call of the page and no callback changes the defaults of the    *)
(* instance.                                                               *)
(***************************************************************************)
C27_DefaultsFixed == [][defaults' = defaults]_vars

\* C27: after a call of reset, a burst of cannon has been dispatched with
\* 100 particles, and the defaults are those of the constructor, with 200
C27_DefaultsAfterBurst ==
  /\ lastBurst.n > 0
  /\ lastBurst.via = "launchConfetti"
  /\ lastBurst.config.particleCount = RatInt(100)
  /\ clearCount > 0
  /\ defaults = constructor(NoOptions)

(***************************************************************************)
(* C28: the tick of an infinite loop that finds its end time passed clears *)
(* the interval of that loop and of no other: every other interval that    *)
(* was pending is pending after it.                                        *)
(***************************************************************************)
C28_ExpiryClearsOwnInterval ==
  [][ \A t \in timers :
        (Ran(t, "infiniteTick") /\ now > t.env.end) =>
          /\ ~\E v \in timers' : v.id = t.id /\ v.kind = "interval"
          /\ \A u \in timers :
               (u.kind = "interval" /\ u.id # t.id) =>
                 \E v \in timers' : v.id = u.id /\ v.kind = "interval" ]_vars

(***************************************************************************)
(* C29: the scalar of every fade burst of reset('smooth') is at least 0    *)
(* and less than 1.                                                        *)
(***************************************************************************)
C29_FadeScalarInUnitRange ==
  (lastBurst.n > 0 /\ lastBurst.via = "reset") =>
    /\ RatLeq(RatInt(0), lastBurst.config.scalar)
    /\ RatLess(lastBurst.config.scalar, RatInt(1))

\* the least integer that is not less than n / d
CeilDiv(n, d) == (n + d - 1) \div d

(***************************************************************************)
(* C30: whatever else the page calls, the interval of a fade of duration D *)
(* is pending until it has ticked ceil(D / 50) times, once every 50 ms,    *)
(* then clears itself, and never ticks again.                              *)
(***************************************************************************)
C30_FadeEndsItself ==
  \A id \in DOMAIN loops :
    LET l == loops[id]
        n == CeilDiv(l.duration, stepTime)
    IN  l.kind = "fade" =>
          /\ l.ticks <= n
          /\ Pending(Here, id) <=> l.ticks < n
          /\ l.expired = (IF l.ticks = n THEN 1 ELSE 0)
          /\ l.ticks * stepTime <= now - l.start
          /\ l.ticks < n => now <= l.start + stepTime * (l.ticks + 1)
          /\ now > l.start + stepTime * n => l.ticks = n

\* C30: a fade of 120 ms has ended itself on its third tick, although
\* reset('instant') was called after its first
C30_FadeOutlivesInstantReset ==
  \E id \in DOMAIN loops :
    /\ loops[id].kind = "fade"
    /\ loops[id].duration = 120
    /\ loops[id].ticks = 3
    /\ loops[id].expired = 1
    /\ ~Pending(Here, id)
    /\ \E c \in DOMAIN log :
         /\ log[c].method = "reset" /\ log[c].arg = "instant"
         /\ log[c].at > loops[id].start
         /\ log[c].at < loops[id].start + 120

\* the interval u is pending before this step and not after it
Gone(u) == ~\E v \in timers' : v.id = u.id /\ v.kind = "interval"

(***************************************************************************)
(* C31: the interval of an infinite or fireworks loop is never cancelled   *)
(* by the call reset('smooth') nor by a tick of the fade before the last:  *)
(* it goes only on a tick of such a loop, on reset('instant'), or on the   *)
(* last tick of a fade, and then it is the interval timerId names.  The    *)
(* last tick of a fade cancels the interval timerId names at that moment,  *)
(* whenever its loop was started, and leaves timerId null.                 *)
(***************************************************************************)
C31_FadeEndCancelsTrackedLoop ==
  [][ /\ \A u \in TickingLoops :
           Gone(u) =>
             \/ event'.op = "callback" /\ event'.method \in {"infiniteTick", "fireworksTick"}
             \/ ResetCalled(event', "instant")
             \/ /\ u.id = timerId
                /\ \E t \in timers :
                     /\ Ran(t, "fadeTick") /\ Gone(t)
                     /\ loops'[t.id].ticks = CeilDiv(loops[t.id].duration, stepTime)
      /\ \A t \in timers :
           (Ran(t, "fadeTick") /\ Gone(t)) =>
             /\ timerId' = NoHandle
             /\ \A u \in TickingLoops : u.id = timerId => Gone(u) ]_vars

\* C31: the last tick of a fade has just cancelled a fireworks loop that was
\* started after reset('smooth') was called, with its end time still ahead
C31_LaterLoopCancelledByFade ==
  /\ event.op = "callback" /\ event.method = "fadeTick"
  /\ timerId = NoHandle
  /\ \E f, id \in DOMAIN loops :
       /\ loops[f].kind = "fade" /\ loops[f].expired = 1 /\ ~Pending(Here, f)
       /\ lastBurst.n > 0 /\ lastBurst.loop = f /\ lastBurst.at = now
       /\ loops[id].kind = "fireworks"
       /\ id > f /\ loops[id].start > loops[f].start
       /\ loops[id].expired = 0 /\ loops[id].halted = 0
       /\ now < loops[id].start + loops[id].duration
       /\ ~Pending(Here, id)

\* the frame loops of call c were running when reset was called, and no frame loop has begun since
Survivor(c) == log[c].reset = 1 /\ log[c].joined = 0

\* C32: when reset is called while snow and pride frame loops run on the one instance and no
\* frame loop begins afterwards, every one of these loops stops: after the reset none of their
\* frames launches a burst or requests a frame, and once the frame that follows the reset has
\* run none of their frames is pending
C32_ResetStopsBothLoops ==
  \A c \in DOMAIN log :
    Survivor(c) =>
      /\ log[c].late = 0
      /\ \A t \in timers :
           (t.kind = "frame" /\ t.origin = c) => t.due <= NextFrame(log[c].resetAt)
      /\ now > NextFrame(log[c].resetAt) => ~\E t \in timers : t.kind = "frame" /\ t.origin = c

\* a snow loop and a pride loop were both running at the reset; the frame of the one that was
\* not tracked has just run before its end, found the handle null and left nothing behind
C32_UntrackedFrameFoundNull ==
  /\ event.op = "callback" /\ event.method \in {"snowFrame", "prideFrame"}
  /\ animationFrameId = NoHandle
  /\ ~\E t \in timers : t.kind \in {"frame", "launch"}
  /\ \E c, d \in DOMAIN log :
       /\ log[c].method = "snow" /\ log[d].method = "pride"
       /\ Survivor(c) /\ Survivor(d)
       /\ log[c].late = 0 /\ log[d].late = 0
       /\ log[c].resetAt = log[d].resetAt
       /\ now > log[c].resetAt
       /\ now < log[c].at + OrMs(log[c].options, "duration", snowDuration)
       /\ now < log[d].at + OrMs(log[d].options, "duration", prideDuration)

\* the timeout of the snow call c, as snow set it
StartOf(c) ==
  { t \in timers : /\ t.cb = "snowStart" /\ t.origin = c
                   /\ t.due = log[c].at + OrMs(log[c].options, "delay", 0) }

\* the frames of snow requested in this step for the loop that ends at the instant e
FramesUntil(e) == {f \in Requested : f.cb = "snowFrame" /\ f.env.animationEnd = e}

(***************************************************************************)
(* C33: reset does not cancel a snow call whose initial delay has not      *)
(* elapsed: whatever is called in between, the timeout of the call stays   *)
(* pending until the delay has elapsed; when it runs it requests a frame   *)
(* and sets animationFrameId to its handle, one never used before, for a   *)
(* loop that ends duration ms later; and every frame of snow that runs     *)
(* before the end of its loop while animationFrameId is not null           *)
(* dispatches one burst and requests the next frame of the loop.           *)
(***************************************************************************)
C33_ResetLeavesPendingSnow ==
  [][ /\ \A c \in DOMAIN log :
           (log[c].method = "snow" /\ now < log[c].at + OrMs(log[c].options, "delay", 0))
             => StartOf(c) # {}
      /\ \A c \in DOMAIN log \cap DOMAIN log' :
           \A t \in StartOf(c) : t \notin timers' => Ran(t, "snowStart")
      /\ \A t \in timers :
           Ran(t, "snowStart") =>
             LET e == now + OrMs(t.env.options, "duration", snowDuration)
             IN  /\ animationFrameId' # NoHandle
                 /\ animationFrameId' >= nextSeq
                 /\ \A u \in timers : u.id # animationFrameId'
                 /\ \E f \in FramesUntil(e) :
                      /\ f.id = animationFrameId' /\ f.origin = t.origin
                      /\ Requested = {f}
                 /\ burstCount' = burstCount
      /\ \A t \in timers :
           (Ran(t, "snowFrame") /\ now < t.env.animationEnd /\ animationFrameId # NoHandle) =>
             /\ burstCount' = burstCount + 1
             /\ lastBurst'.origin = t.origin /\ lastBurst'.at = now
             /\ \E f \in FramesUntil(t.env.animationEnd) :
                  /\ f.id = animationFrameId' /\ f.origin = t.origin
                  /\ Requested = {f} ]_vars

\* the first call is snow with a delay and the second is reset, made before the delay has
\* elapsed, when animationFrameId is null; a frame of that snow has just dispatched a burst
C33_SnowRunsAfterReset ==
  /\ event.op = "callback" /\ event.method = "snowFrame" /\ event.bursts = 1
  /\ animationFrameId # NoHandle
  /\ \E c, r \in DOMAIN log :
       /\ c = 1 /\ r = 2
       /\ log[c].method = "snow" /\ Has(log[c].options, "delay")
       /\ log[r].method = "reset"
       /\ log[r].at < log[c].at + log[c].options.delay
       /\ lastBurst.origin = c
       /\ lastBurst.at = now
       /\ now > log[r].at

\* the effect methods that hand their bursts to launchConfettiWithDelay when they are called
DirectEffects == {"cannon", "randomDirection", "realistic"}

\* the invocations of the effect method queued in this step
Queued == {u \in timers' \ timers : u.cb = "infiniteCall"}

\* the instants at which the loop that the call c of infinite started has ticked within
\* its duration
TicksWithin(c) ==
  { loops[id].start + k * loops[id].period :
      id \in {i \in DOMAIN loops : loops[i].kind = "infinite" /\ loops[i].call = c},
      k \in 1..MaxTime }
  \cap UNION { loops[id].start..(loops[id].start + loops[id].duration) :
                 id \in {i \in DOMAIN loops : loops[i].kind = "infinite" /\ loops[i].call = c} }

\* a loop of infinite with options.delay = d: a tick at or before the end (the interval is set
\* again; one that is gone was cleared by the expiry of another loop and did not tick) queues
\* one invocation for d ms later with the options of the loop, and a tick after the end queues
\* none; an invocation runs d ms after its tick and dispatches no burst itself; and, for the
\* effect methods given, a burst is dispatched 2 * d ms after a tick within the duration
TwiceDelayed(methods) ==
  /\ \A t \in timers :
       (Ran(t, "infiniteTick") /\ (now <= t.env.end => ~Gone(t))) =>
         LET d == OrMs(t.env.options, "delay", 0)
         IN  /\ burstCount' = burstCount
             /\ IF now <= t.env.end
                THEN \E u \in Queued :
                       /\ Queued = {u}
                       /\ u.wait = d /\ u.due = now + d
                       /\ u.env.method = t.env.method /\ u.env.options = t.env.options
                ELSE Queued = {}
  /\ \A t \in timers :
       Ran(t, "infiniteCall") =>
         /\ t.wait = OrMs(t.env.options, "delay", 0)
         /\ now = t.due
         /\ t.due - t.wait \in TicksWithin(t.origin)
         /\ burstCount' = burstCount
  /\ \A u \in timers :
       ( /\ Ran(u, "launch")
         /\ log[u.origin].method = "infinite" /\ log[u.origin].arg \in methods ) =>
         /\ burstCount' = burstCount + 1
         /\ lastBurst'.at = now /\ lastBurst'.origin = u.origin
         /\ now - 2 * OrMs(log[u.origin].options, "delay", 0) \in TicksWithin(u.origin)

\* fall waits for options.delay itself before it hands its bursts to launchConfettiWithDelay:
\* a burst of fall is dispatched 3 * d ms after a tick within the duration
FallThriceDelayed ==
  \A u \in timers :
    ( /\ Ran(u, "launch")
      /\ log[u.origin].method = "infinite" /\ log[u.origin].arg = "fall" ) =>
      /\ burstCount' = burstCount + 1
      /\ now - 3 * OrMs(log[u.origin].options, "delay", 0) \in TicksWithin(u.origin)

(***************************************************************************)
(* C34, as claimed: with infinite(method, interval, duration, {delay: d})  *)
(* the effect method is invoked d ms after each tick and its bursts are    *)
(* dispatched 2 * d ms after the tick, whatever the effect method is.      *)
(***************************************************************************)
C34_EveryEffectTwiceDelayed == [][TwiceDelayed(InfiniteMethods)]_vars

(***************************************************************************)
(* C34, amended: the effect method is invoked d ms after each tick that    *)
(* lies within the duration, with the options of the loop; when the method *)
(* is cannon, randomDirection or realistic its bursts are dispatched a     *)
(* further d ms later, 2 * d ms after the tick; when it is fall, which      *)
(* waits for the delay itself as well, 3 * d ms after the tick.            *)
(***************************************************************************)
C34_DirectEffectTwiceDelayed == [][TwiceDelayed(DirectEffects) /\ FallThriceDelayed]_vars

\* the one loop of the page, of cannon with a delay, has ended; a burst has just been
\* dispatched, after the end and twice the delay after a tick that lay within the duration
C34_BurstTwiceDelayAfterLastTick ==
  /\ calls = 1
  /\ event.op = "callback" /\ event.method = "launch" /\ event.bursts = 1
  /\ log[1].method = "infinite" /\ log[1].arg = "cannon"
  /\ Has(log[1].options, "delay")
  /\ lastBurst.origin = 1 /\ lastBurst.at = now
  /\ \E id \in DOMAIN loops :
       LET l == loops[id]
       IN  /\ l.kind = "infinite" /\ l.start = log[1].at
           /\ l.delay = log[1].options.delay
           /\ now > l.start + l.duration
           /\ \E k \in 1..l.queued :
                /\ l.start + k * l.period <= l.start + l.duration
                /\ l.start + (k + 1) * l.period > l.start + l.duration
                /\ now = l.start + k * l.period + 2 * l.delay

====
